---- MODULE Spec2Model ----
(***************************************************************************)
(* CompetitionMonitor: the response parser of backend/main.py              *)
(* (parse_competitors_from_text), the keyword scorer of                    *)
(* backend/services/scoreservice.py (DesignToolsScoringService), the       *)
(* request history of backend/services/historyservice.py (HistoryService)  *)
(* and the routes of main.py and backend/main_simple.py that look up       *)
(* stored analyses.                                                        *)
(*                                                                         *)
(* A text is a sequence of characters; a character is a one-character      *)
(* string, and a character outside ASCII is written as its code point      *)
(* ("u2013" is the en dash, "u0434" the Cyrillic letter de).  The Python   *)
(* value None is the constant None.                                        *)
(***************************************************************************)
EXTENDS Integers, Sequences, FiniteSets, TLC

VARIABLES
    text,         \* parse_competitors_from_text: the argument
    pc,           \* parse_competitors_from_text: "call", "loop", "done", "error"
    pattern,      \* index into patterns of the regex being iterated
    pos,          \* where re.finditer resumes its search in text
    seen_names,   \* the set seen_names
    competitors,  \* the list competitors
    result,       \* the value returned
    outcome,      \* the branch the last loop iteration took
    tables,       \* _score_text: the keywords argument of each category
    texts,        \* _score_text: the texts to score, in order
    scored,       \* _score_text: the values returned so far, call by call
    analysis,     \* score_competitor_text: the argument
    epc,          \* score_competitor_text: "idle", "call", "done"
    entity_score, \* score_competitor_text: the dict returned
    rec_args,     \* _generate_recommendations: the arguments
    recs,         \* _generate_recommendations: the list returned, None before
    scores,       \* compare_competitors: the argument, a dict in insertion order
    cpc,          \* compare_competitors: "idle", "call", "done", "error"
    comparison,   \* compare_competitors: the dict returned, or what was raised
    scorer,       \* main.py: the module-level scorer, a class name or "None"
    hpc,          \* analyze_text_scored: "idle", "call", "parse", "done", "http502", "http503"
    response,     \* analyze_text_scored: the competitors of the response
    previous,     \* the value an earlier call of the parser returned on text
    calls,        \* how many calls of the parser on text were started
    req,          \* score_competitor_text: the local state of each request's call
    history_file, \* HistoryService: the content of history.json
    clock,        \* HistoryService: how many entries were created
    hcall,        \* HistoryService: the local state of each caller's call
    hreturn,      \* HistoryService: what the last call returned or raised
    rows,         \* analyses.db: the number of rows of table analyses
    http          \* the last answer of a route that looks up analyses

parseVars == <<text, pc, pattern, pos, seen_names, competitors, result, outcome>>

textVars == <<tables, texts, scored>>

entityVars == <<analysis, epc, entity_score>>

recVars == <<rec_args, recs>>

compareVars == <<scores, cpc, comparison>>

handlerVars == <<scorer, hpc, response>>

repeatVars == <<previous, calls>>

requestVars == <<req>>

historyVars == <<history_file, clock, hcall, hreturn>>

storeVars == <<rows, http>>

serviceVars == <<requestVars, historyVars, storeVars>>

\* What the parser and the scorer's text functions leave alone.
callVars == <<recVars, compareVars, handlerVars, repeatVars, serviceVars>>

vars == <<parseVars, textVars, entityVars, callVars>>

-----------------------------------------------------------------------------
(* Characters and the str methods the code uses.                           *)

None == <<"None">>

EnDash == "u2013"

UpperChars ==
    <<"A", "B", "C", "D", "E", "F", "G", "H", "I", "J", "K", "L", "M", "N", "O", "P", "Q",
      "R", "S", "T", "U", "V", "W", "X", "Y", "Z", "u0426", "u0414", "u0410">>

LowerChars ==
    <<"a", "b", "c", "d", "e", "f", "g", "h", "i", "j", "k", "l", "m", "n", "o", "p", "q",
      "r", "s", "t", "u", "v", "w", "x", "y", "z", "u0446", "u0434", "u0430">>

IsSpace(c) == c \in {" ", "\t", "\n", "\r"}

NotSpace(c) == ~IsSpace(c)

IsDigit(c) == c \in {"0", "1", "2", "3", "4", "5", "6", "7", "8", "9"}

NotDigit(c) == ~IsDigit(c)

IsStar(c) == c = "*"

IsNewline(c) == c = "\n"

IsDotOrNewline(c) == c \in {".", "\n"}

NotDot(c) == c # "."

\* str.isupper() of one character
IsUpper(c) == \E i \in DOMAIN UpperChars : UpperChars[i] = c

LowerChar(c) ==
    IF IsUpper(c) THEN LowerChars[CHOOSE i \in DOMAIN UpperChars : UpperChars[i] = c] ELSE c

\* str.lower()
Lower(s) == [i \in DOMAIN s |-> LowerChar(s[i])]

Min(S) == CHOOSE x \in S : \A y \in S : x <= y

Max(S) == CHOOSE x \in S : \A y \in S : x >= y

\* The first index j >= i of t whose character satisfies P, Len(t) + 1 if none.
First(t, i, P(_)) ==
    IF \E j \in i..Len(t) : P(t[j])
    THEN CHOOSE j \in i..Len(t) : P(t[j]) /\ \A k \in i..(j - 1) : ~P(t[k])
    ELSE Len(t) + 1

\* The last index of t whose character satisfies P, 0 if none.
Last(t, P(_)) ==
    IF \E j \in 1..Len(t) : P(t[j])
    THEN CHOOSE j \in 1..Len(t) : P(t[j]) /\ \A k \in (j + 1)..Len(t) : ~P(t[k])
    ELSE 0

SkipSpace(t, i) == First(t, i, NotSpace)

\* str.strip()
Strip(s) == SubSeq(s, First(s, 1, NotSpace), Last(s, NotSpace))

\* str.rstrip('.')
RStripDots(s) == SubSeq(s, 1, Last(s, NotDot))

\* s[:n]
Take(s, n) == SubSeq(s, 1, IF Len(s) < n THEN Len(s) ELSE n)

\* A match of \[\d+\] starts at index a of s.
CitationAt(s, a) ==
    /\ s[a] = "["
    /\ LET b == First(s, a + 1, NotDigit)
       IN  b > a + 1 /\ b <= Len(s) /\ s[b] = "]"

\* re.sub(r'\[\d+\]', '', s): the leftmost matches are cut out, one pass.
RECURSIVE RemoveCitations(_)
RemoveCitations(s) ==
    LET A == {a \in 1..Len(s) : CitationAt(s, a)}
    IN  IF A = {} THEN s
        ELSE LET a == Min(A)
                 b == First(s, a + 1, NotDigit)
             IN  SubSeq(s, 1, a - 1) \o RemoveCitations(SubSeq(s, b + 1, Len(s)))

\* `sub in s` for two str values
Contains(s, sub) ==
    \E i \in 0..(Len(s) - Len(sub)) : \A j \in 1..Len(sub) : s[i + j] = sub[j]

-----------------------------------------------------------------------------
(* The four regular expressions, each as the match the backtracking engine *)
(* finds at one start position.  A match is its two groups and the index   *)
(* after its last character.                                               *)

NoMatch == [ok |-> FALSE]

Match(name, desc, end) == [ok |-> TRUE, name |-> name, desc |-> desc, end |-> end]

Separators == {EnDash, "-", ":"}

\* ^ under re.MULTILINE
AtLineStart(t, p) == p = 1 \/ (p - 1 <= Len(t) /\ t[p - 1] = "\n")

\* \*\*([^*]+?)\*\*\s*(?:–|-|:)\s*(.+?)(?:\n|$) at index i.  The name runs to
\* the first '*'.  \s* before (.+?) is greedy and crosses newlines; when only
\* blanks follow the separator it backs off to the last blank that is not a
\* newline, which becomes the description.
MatchTail(t, i) ==
    LET n == Len(t)
        a == i + 2
        b == First(t, a, IsStar)
        c == SkipSpace(t, b + 2)
        d == SkipSpace(t, c + 1)
        e == First(t, d, IsNewline)
        K == {k \in (c + 1)..n : t[k] # "\n"}
        k == Max(K)
    IN  IF ~(i + 1 <= n /\ t[i] = "*" /\ t[i + 1] = "*") THEN NoMatch
        ELSE IF ~(a <= n /\ t[a] # "*") THEN NoMatch
        ELSE IF ~(b + 1 <= n /\ t[b + 1] = "*") THEN NoMatch
        ELSE IF ~(c <= n /\ t[c] \in Separators) THEN NoMatch
        ELSE IF d <= n
             THEN Match(SubSeq(t, a, b - 1), SubSeq(t, d, e - 1), IF e <= n THEN e + 1 ELSE e)
        ELSE IF K = {} THEN NoMatch
        ELSE Match(SubSeq(t, a, b - 1), <<t[k]>>, IF k + 1 <= n THEN k + 2 ELSE k + 1)

\* Pattern 1: ^[\s]*[\-\*]\s+ then the tail
MatchBullet(t, p) ==
    LET n == Len(t)
        q == SkipSpace(t, p)
        r == SkipSpace(t, q + 1)
    IN  IF AtLineStart(t, p) /\ q <= n /\ t[q] \in {"-", "*"} /\ r > q + 1
        THEN MatchTail(t, r)
        ELSE NoMatch

\* Pattern 2: ^[\s]* then the tail
MatchBold(t, p) ==
    IF AtLineStart(t, p) THEN MatchTail(t, SkipSpace(t, p)) ELSE NoMatch

\* Pattern 3: \*\*([^*]+?)\*\*:\s*([^.\n]+), not anchored.  When the blanks
\* after the colon are followed by '.' or the end, \s* backs off to the last
\* blank that is not a newline.
MatchInline(t, p) ==
    LET n == Len(t)
        a == p + 2
        b == First(t, a, IsStar)
        d == SkipSpace(t, b + 3)
        e == First(t, d, IsDotOrNewline)
        K == {k \in (b + 3)..(d - 1) : t[k] # "\n"}
        k == Max(K)
    IN  IF ~(p + 1 <= n /\ t[p] = "*" /\ t[p + 1] = "*") THEN NoMatch
        ELSE IF ~(a <= n /\ t[a] # "*") THEN NoMatch
        ELSE IF ~(b + 2 <= n /\ t[b + 1] = "*" /\ t[b + 2] = ":") THEN NoMatch
        ELSE IF d <= n /\ t[d] # "."
             THEN Match(SubSeq(t, a, b - 1), SubSeq(t, d, e - 1), e)
        ELSE IF K = {} THEN NoMatch
        ELSE Match(SubSeq(t, a, b - 1), <<t[k]>>, k + 1)

\* Pattern 4: ^\d+\.\s+ then the tail
MatchNumbered(t, p) ==
    LET n == Len(t)
        q == First(t, p, NotDigit)
        r == SkipSpace(t, q + 1)
    IN  IF AtLineStart(t, p) /\ q > p /\ q <= n /\ t[q] = "." /\ r > q + 1
        THEN MatchTail(t, r)
        ELSE NoMatch

\* patterns with the inline pattern tried first
patterns_InlineFirst == <<"inline", "bullet", "bold", "numbered">>

\* The list patterns, in the order the code tries them.
patterns == <<"bullet", "bold", "inline", "numbered">>

MatchAt(pat, t, p) ==
    CASE patterns[pat] = "bullet" -> MatchBullet(t, p)
      [] patterns[pat] = "bold" -> MatchBold(t, p)
      [] patterns[pat] = "inline" -> MatchInline(t, p)
      [] patterns[pat] = "numbered" -> MatchNumbered(t, p)

\* The next match re.finditer yields when its search resumes at index s.
finditer(pat, t, s) ==
    LET M == {p \in s..Len(t) : MatchAt(pat, t, p).ok}
    IN  IF M = {} THEN NoMatch ELSE MatchAt(pat, t, Min(M))

-----------------------------------------------------------------------------
(* parse_competitors_from_text, one loop iteration per step.               *)

MinName == 2

MinDescription == 10

MaxDescription == 200

MaxCompetitors == 10

\* {}: the empty dict an entity carries as its score until it is scored
EmptyDict == <<>>

\* IsFalsy with the guard written as text == ""
IsFalsy_EmptyStringOnly(t) == t = <<>>

\* `not text`
IsFalsy(t) == t = None \/ t = <<>>

\* NameKey without .lower()
NameKey_CaseSensitive(name) == name

\* name_lower = name.lower()
NameKey(name) == Lower(name)

\* CleanDescription without the re.sub
CleanDescription_KeepCitations(desc) == Strip(desc)

\* desc = re.sub(r'\[\d+\]', '', desc).strip()
CleanDescription(desc) == Strip(RemoveCitations(desc))

\* desc = desc.rstrip('.') and, in the dict, desc[:200]
FinalDescription(desc) == Take(RStripDots(desc), MaxDescription)

\* the dict appended to competitors
Entity(name, desc) ==
    [name |-> name, description |-> FinalDescription(desc), strengths |-> <<>>,
     weaknesses |-> <<>>, score |-> EmptyDict]

\* ReturnSlice without the [:10]
ReturnSlice_All(c) == c

\* return competitors[:10]
ReturnSlice(c) == Take(c, MaxCompetitors)

\* The branch one loop iteration takes for the groups (g1, g2) of a match.
Verdict(g1, g2, seen) ==
    LET name == Strip(g1)
        desc == Strip(g2)
    IN  IF Len(name) < MinName THEN "short_name"
        ELSE IF ~IsUpper(name[1]) THEN "not_upper"
        ELSE IF NameKey(name) \in seen THEN "duplicate"
        ELSE IF Len(CleanDescription(desc)) < MinDescription THEN "short_desc"
        ELSE "accepted"

\* Recorded with seen_names.add placed before the test of the description
Recorded_BeforeDescriptionTest(verdict) == verdict \in {"accepted", "short_desc"}

\* Line 140, seen_names.add(name_lower), is reached when no filter before it
\* ran continue.
Recorded(verdict) == verdict = "accepted"

\* FreshSeenNames for a set that outlives the call
FreshSeenNames_Kept(seen) == seen

\* seen_names = set(): a local of the call, whatever an earlier call saw
FreshSeenNames(seen) == {}

\* Lines 84-90: the guard on the argument.  re.finditer raises TypeError on a
\* non-string, outside the try block.
ParseEnter ==
    /\ pc = "call"
    /\ IF IsFalsy(text)
       THEN /\ pc' = "done"
            /\ result' = <<>>
            /\ UNCHANGED <<pattern, pos>>
       ELSE /\ pc' = IF text = None THEN "error" ELSE "loop"
            /\ pattern' = 1
            /\ pos' = 1
            /\ UNCHANGED result
    /\ competitors' = <<>>
    /\ seen_names' = FreshSeenNames(seen_names)
    /\ UNCHANGED <<text, outcome, textVars, entityVars, callVars>>

\* Lines 112-151: the body of the inner loop on the next match.
ParseMatch ==
    /\ pc = "loop"
    /\ pattern \in DOMAIN patterns
    /\ LET m == finditer(pattern, text, pos)
       IN  /\ m.ok
           /\ pos' = m.end
           /\ outcome' = Verdict(m.name, m.desc, seen_names)
           /\ seen_names' =
                  IF Recorded(Verdict(m.name, m.desc, seen_names))
                  THEN seen_names \cup {NameKey(Strip(m.name))}
                  ELSE seen_names
           /\ competitors' =
                  IF Verdict(m.name, m.desc, seen_names) = "accepted"
                  THEN Append(competitors, Entity(Strip(m.name), CleanDescription(Strip(m.desc))))
                  ELSE competitors
    /\ UNCHANGED <<text, pc, pattern, result, textVars, entityVars, callVars>>

\* Line 109: the matches of one pattern are exhausted, the next one starts.
ParseNextPattern ==
    /\ pc = "loop"
    /\ pattern \in DOMAIN patterns
    /\ ~finditer(pattern, text, pos).ok
    /\ pattern' = pattern + 1
    /\ pos' = 1
    /\ UNCHANGED <<text, pc, seen_names, competitors, result, outcome, textVars, entityVars, callVars>>

\* Lines 153-157
ParseReturn ==
    /\ pc = "loop"
    /\ pattern \notin DOMAIN patterns
    /\ result' = ReturnSlice(competitors)
    /\ pc' = "done"
    /\ UNCHANGED <<text, pattern, pos, seen_names, competitors, outcome, textVars, entityVars, callVars>>

MaxCalls == 2

\* The caller keeps the list returned and calls the parser on the same text
\* once more.
ParseAgain ==
    /\ pc = "done"
    /\ calls < MaxCalls
    /\ previous' = result
    /\ calls' = calls + 1
    /\ pc' = "call"
    /\ UNCHANGED <<text, pattern, pos, seen_names, competitors, result, outcome, textVars,
                   entityVars, recVars, compareVars, handlerVars, serviceVars>>

-----------------------------------------------------------------------------
(* The texts parse_competitors_from_text is called with.                   *)

MaxLines == 2

MaxBulk == 12

MaxBlank == 3

Bold == <<"*", "*">>

Figma == <<"F", "i", "g", "m", "a">>

FigmaUpper == <<"F", "I", "G", "M", "A">>

Sketch == <<"S", "k", "e", "t", "c", "h">>

Canva == <<"C", "a", "n", "v", "a">>

Adobe == <<"A", "d", "o", "b", "e">>

Miro == <<"M", "i", "r", "o">>

FigmaDesc ==
    <<"C", "o", "l", "l", "a", "b", "o", "r", "a", "t", "i", "v", "e", " ", "v", "e",
          "c", "t", "o", "r", " ", "d", "e", "s", "i", "g", "n", " ", "t", "o", "o", "l",
          " ", "w", "i", "t", "h", " ", "A", "I", " ", "f", "e", "a", "t", "u", "r", "e",
          "s">>

SketchDesc ==
    <<"M", "a", "c", "-", "o", "n", "l", "y", " ", "d", "e", "s", "i", "g", "n", " ",
          "t", "o", "o", "l", " ", "l", "a", "c", "k", "i", "n", "g", " ", "A", "I">>

Repeat(c, n) == [i \in 1..n |-> c]

\* "- **name** sep desc"
BulletLine(name, sep, desc) ==
    <<"-", " ">> \o Bold \o name \o Bold \o <<" ", sep, " ">> \o desc

\* "**name** sep desc"
BoldLine(name, sep, desc) == Bold \o name \o Bold \o <<" ", sep, " ">> \o desc

\* "1. **name** sep desc"
NumberedLine(name, sep, desc) ==
    <<"1", ".", " ">> \o Bold \o name \o Bold \o <<" ", sep, " ">> \o desc

\* "see **name**: desc"
InlineLine(name, desc) ==
    <<"s", "e", "e", " ">> \o Bold \o name \o Bold \o <<":", " ">> \o desc

\* The end-to-end scenario: both items on one line.
ScenarioText ==
    BulletLine(Figma, EnDash, FigmaDesc \o <<" ", "[", "1", "]", ".">>) \o <<" ">>
        \o BulletLine(Sketch, "-", SketchDesc \o <<".">>)

\* The same two items, one per line.
ScenarioLines ==
    BulletLine(Figma, EnDash, FigmaDesc \o <<" ", "[", "1", "]", ".">>) \o <<"\n">>
        \o BulletLine(Sketch, "-", SketchDesc \o <<".">>)

Lines ==
    << BulletLine(Figma, EnDash, <<"C", "o", "l", "l", "a", "b", "o", "r", "a", "t", "i", "v", "e", " ", "d", "e",
          "s", "i", "g", "n", " ", "t", "o", "o", "l", " ", "[", "1", "]", ".">>),
       BoldLine(FigmaUpper, "-", <<"V", "e", "c", "t", "o", "r", " ", "e", "d", "i", "t", "o", "r">>),
       BoldLine(Figma, ":", <<"D", "e", "s", "i", "g", "n", ".", " ", "T", "o", "o", "l", " ", "f", "o", "r",
          " ", "t", "e", "a", "m", "s">>),
       NumberedLine(Sketch, "-", <<"a", "b", "c", "d", "e", "f", "g", "h", ".", ".">>),
       <<"*", " ">> \o Bold \o Sketch \o Bold \o <<" ", ":", " ">> \o <<"s", "h", "o", "r", "t", "[", "3", "]", "x", "y">>,
       BulletLine(<<"p", "e", "n", "p", "o", "t">>, "-", <<"o", "p", "e", "n", " ", "s", "o", "u", "r", "c", "e", " ", "t", "o", "o", "l">>),
       InlineLine(Canva, <<"O", "n", "l", "i", "n", "e", " ", "t", "o", "o", "l", " ", "[", "1", "2", "]",
          " ", "f", "o", "r", " ", "a", "l", "l", ".", " ", "F", "r", "e", "e">>),
       BulletLine(<<"X">>, "-", <<"s", "i", "n", "g", "l", "e", " ", "l", "e", "t", "t", "e", "r">>),
       BulletLine(Miro, "-", <<>>),
       <<" ", " ">>,
       BulletLine(Adobe, "-", Repeat("x", MaxDescription) \o <<"y", ".">>),
       BulletLine(Canva, "-", Repeat("x", MaxDescription - 1) \o <<".", "y", "z">>),
       BulletLine(Miro, EnDash, <<"B", "o", "a", "r", "d", " ", "t", "o", "o", "l", " ", "[", "[", "1", "]", "2", "]", " ", "f",
      "o", "r", " ", "t", "e", "a", "m", "s">>) >>

RECURSIVE JoinLines(_)
JoinLines(ls) ==
    IF ls = <<>> THEN <<>>
    ELSE IF Len(ls) = 1 THEN ls[1]
    ELSE ls[1] \o <<"\n">> \o JoinLines(Tail(ls))

\* Up to MaxLines of Lines, one per line.
ShortTexts ==
    {JoinLines([i \in DOMAIN f |-> Lines[f[i]]]) :
        f \in UNION {[1..k -> DOMAIN Lines] : k \in 0..MaxLines}}

BulkName(i) ==
    <<UpperChars[(((i - 1) \div 26) % 26) + 1], LowerChars[((i - 1) % 26) + 1]>>

BulkDesc == <<"d", "e", "s", "i", "g", "n", " ", "t", "o", "o", "l">>

\* The i-th line of a long response; the four markups alternate.
BulkLine(i) ==
    CASE i % 4 = 1 -> BulletLine(BulkName(i), EnDash, BulkDesc)
      [] i % 4 = 2 -> BoldLine(BulkName(i), "-", BulkDesc)
      [] i % 4 = 3 -> NumberedLine(BulkName(i), ":", BulkDesc)
      [] i % 4 = 0 -> InlineLine(BulkName(i), BulkDesc)

\* A response of k entities, then at most one line of Lines.
LongTexts ==
    {JoinLines([i \in 1..k |-> BulkLine(i)] \o ls) :
        k \in 1..MaxBulk, ls \in {<<>>} \cup {<<Lines[j]>> : j \in DOMAIN Lines}}

\* Blank responses
BlankTexts == UNION {[1..k -> {" ", "\t", "\n"}] : k \in 1..MaxBlank}

IsBlank(t) == t # None /\ \A i \in DOMAIN t : IsSpace(t[i])

Inputs == {None, <<>>, ScenarioText, ScenarioLines} \cup ShortTexts \cup LongTexts \cup BlankTexts

-----------------------------------------------------------------------------
(* Numbers.  A float of the scorer is modelled as the exact fraction n/d in *)
(* lowest terms, d > 0; round(x, 2) rounds half to even.                    *)

RECURSIVE GCD(_, _)
GCD(a, b) == IF b = 0 THEN a ELSE GCD(b, a % b)

R(n, d) ==
    LET g == GCD(IF n < 0 THEN -n ELSE n, d)
    IN  [n |-> n \div g, d |-> d \div g]

Zero == R(0, 1)

Ten == R(10, 1)

RAdd(a, b) == R(a.n * b.d + b.n * a.d, a.d * b.d)

RMul(a, b) == R(a.n * b.n, a.d * b.d)

\* a / b for b > 0
RDiv(a, b) == R(a.n * b.d, a.d * b.n)

RLt(a, b) == a.n * b.d < b.n * a.d

RGe(a, b) == ~RLt(a, b)

RGt(a, b) == RLt(b, a)

RLe(a, b) == ~RLt(b, a)

\* min(a, b)
RMin(a, b) == IF RLt(b, a) THEN b ELSE a

\* round(a, 2) for a >= 0
Round2(a) ==
    LET hundredths == (a.n * 100) \div a.d
        twiceRest == 2 * ((a.n * 100) % a.d)
        up == twiceRest > a.d \/ (twiceRest = a.d /\ hundredths % 2 = 1)
    IN  R(IF up THEN hundredths + 1 ELSE hundredths, 100)

-----------------------------------------------------------------------------
(* DesignToolsScoringService                                               *)

KW(k, n, d) == [keyword |-> k, weight |-> R(n, d)]

DESIGN_KEYWORDS ==
    << KW(<<"u", "i", "/", "u", "x">>, 2, 1),
       KW(<<"u0434", "u0438", "u0437", "u0430", "u0439", "u043d">>, 2, 1),
       KW(<<"u0438", "u043d", "u0442", "u0435", "u0440", "u0444", "u0435", "u0439", "u0441">>, 3, 2),
       KW(<<"u0444", "u0438", "u0433", "u043c", "u0430">>, 1, 1),
       KW(<<"c", "a", "n", "v", "a">>, 1, 1),
       KW(<<"a", "d", "o", "b", "e">>, 1, 1),
       KW(<<"v", "e", "c", "t", "o", "r">>, 3, 2),
       KW(<<"u0440", "u0430", "u0441", "u0442", "u0440", "u043e", "u0432", "u044b", "u0439">>, 1, 1),
       KW(<<"s", "v", "g">>, 1, 1),
       KW(<<"c", "s", "s">>, 1, 1),
       KW(<<"u0430", "u043d", "u0438", "u043c", "u0430", "u0446", "u0438", "u044f">>, 2, 1),
       KW(<<"u043f", "u0435", "u0440", "u0435", "u0445", "u043e", "u0434", "u044b">>, 3, 2) >>

ANIMATION_KEYWORDS ==
    << KW(<<"u0430", "u043d", "u0438", "u043c", "u0430", "u0446", "u0438", "u044f">>, 3, 1),
       KW(<<"u043f", "u0435", "u0440", "u0435", "u0445", "u043e", "u0434", "u044b">>, 2, 1),
       KW(<<"u0434", "u0432", "u0438", "u0436", "u0435", "u043d", "u0438", "u0435">>, 2, 1),
       KW(<<"l", "o", "t", "t", "i", "e">>, 2, 1),
       KW(<<"g", "s", "a", "p">>, 2, 1),
       KW(<<"u0442", "u0440", "u0438", ".", "j", "s">>, 5, 2),
       KW(<<"w", "e", "b", "g", "l">>, 5, 2),
       KW(<<"c", "a", "n", "v", "a", "s">>, 3, 2),
       KW(<<"g", "p", "u">>, 2, 1) >>

FEATURE_KEYWORDS ==
    << KW(<<"a", "i">>, 3, 1),
       KW(<<"m", "l">>, 3, 1),
       KW(<<"u043d", "u0435", "u0439", "u0440", "u043e", "u0441", "u0435", "u0442", "u044c">>, 3, 1),
       KW(<<"u0430", "u043b", "u0433", "u043e", "u0440", "u0438", "u0442", "u043c">>, 2, 1),
       KW(<<"u0430", "u0432", "u0442", "u043e", "u043c", "u0430", "u0442", "u0438", "u0437", "u0430", "u0446", "u0438", "u044f">>, 2, 1),
       KW(<<"u043e", "u0431", "u0440", "u0430", "u0431", "u043e", "u0442", "u043a", "u0430">>, 3, 2),
       KW(<<"u0444", "u0438", "u043b", "u044c", "u0442", "u0440", "u044b">>, 1, 1),
       KW(<<"u0441", "u043b", "u043e", "u0438">>, 1, 1),
       KW(<<"u0433", "u0440", "u0443", "u043f", "u043f", "u0438", "u0440", "u043e", "u0432", "u043a", "u0430">>, 1, 1),
       KW(<<"u0432", "u0435", "u0440", "u0441", "u0438", "u043e", "u043d", "u0438", "u0440", "u043e", "u0432", "u0430", "u043d", "u0438", "u0435">>, 2, 1),
       KW(<<"u043a", "u043e", "u043b", "u043b", "u0430", "u0431", "u043e", "u0440", "u0430", "u0446", "u0438", "u044f">>, 2, 1),
       KW(<<"u0441", "u0438", "u043d", "u0445", "u0440", "u043e", "u043d", "u0438", "u0437", "u0430", "u0446", "u0438", "u044f">>, 3, 2) >>

UX_KEYWORDS ==
    << KW(<<"u0438", "u043d", "u0442", "u0443", "u0438", "u0442", "u0438", "u0432", "u043d", "u044b", "u0439">>, 2, 1),
       KW(<<"u0443", "u0434", "u043e", "u0431", "u0441", "u0442", "u0432", "u043e">>, 3, 2),
       KW(<<"u043f", "u0440", "u043e", "u0441", "u0442", "u043e", "u0442", "u0430">>, 3, 2),
       KW(<<"u0434", "u043e", "u0441", "u0442", "u0443", "u043f", "u043d", "u043e", "u0441", "u0442", "u044c">>, 2, 1),
       KW(<<"a", "1", "1", "y">>, 2, 1),
       KW(<<"w", "c", "a", "g">>, 3, 2),
       KW(<<"u0430", "u0434", "u0430", "u043f", "u0442", "u0438", "u0432", "u043d", "u044b", "u0439">>, 3, 2),
       KW(<<"u043c", "u043e", "u0431", "u0438", "u043b", "u044c", "u043d", "u044b", "u0439">>, 1, 1),
       KW(<<"u043e", "u043f", "u0442", "u0438", "u043c", "u0438", "u0437", "u0430", "u0446", "u0438", "u044f">>, 1, 1) >>


Categories == <<"design", "animation", "features", "ux">>

\* The class attributes, by category.
ClassTables ==
    [design |-> DESIGN_KEYWORDS, animation |-> ANIMATION_KEYWORDS,
     features |-> FEATURE_KEYWORDS, ux |-> UX_KEYWORDS]

\* What a call that raises ZeroDivisionError yields.
Raised == [raised |-> "ZeroDivisionError"]

\* The loop of lines 73-75: the weights of the keywords found in text_lower.
RECURSIVE MatchedWeight(_, _)
MatchedWeight(text_lower, keywords) ==
    IF keywords = <<>> THEN Zero
    ELSE IF Contains(text_lower, Head(keywords).keyword)
         THEN RAdd(Head(keywords).weight, MatchedWeight(text_lower, Tail(keywords)))
         ELSE MatchedWeight(text_lower, Tail(keywords))

\* sum(keywords.values())
RECURSIVE SumWeights(_)
SumWeights(keywords) ==
    IF keywords = <<>> THEN Zero
    ELSE RAdd(Head(keywords).weight, SumWeights(Tail(keywords)))

\* _score_text returning the matched weight itself, not normalised.
_score_text_Unnormalised(t, keywords) ==
    IF t = None \/ t = <<>> THEN Zero ELSE MatchedWeight(Lower(t), keywords)

\* _score_text dividing without the max_score > 0 guard.
_score_text_NoGuard(t, keywords) ==
    IF t = None \/ t = <<>> THEN Zero
    ELSE IF SumWeights(keywords) = Zero THEN Raised
    ELSE RMin(Ten, RMul(RDiv(MatchedWeight(Lower(t), keywords), SumWeights(keywords)), Ten))

\* _score_text with the test of line 74 negated: the weights of the keywords
\* that are absent are summed.
_score_text_Inverted(t, keywords) ==
    IF t = None \/ t = <<>> THEN Zero
    ELSE RMin(Ten,
              RMul(RDiv(RAdd(SumWeights(keywords),
                             [n |-> -MatchedWeight(Lower(t), keywords).n,
                              d |-> MatchedWeight(Lower(t), keywords).d]),
                        SumWeights(keywords)), Ten))

\* _score_text matching the keywords against the text as written.
_score_text_CaseSensitive(t, keywords) ==
    IF t = None \/ t = <<>> THEN Zero
    ELSE IF RGt(SumWeights(keywords), Zero)
         THEN RMin(Ten, RMul(RDiv(MatchedWeight(t, keywords), SumWeights(keywords)), Ten))
         ELSE Zero

\* How many times sub occurs in s
Occurrences(s, sub) ==
    Cardinality({i \in 0..(Len(s) - Len(sub)) : \A j \in 1..Len(sub) : s[i + j] = sub[j]})

\* The weights of the keywords found, added once per occurrence
RECURSIVE OccurrenceWeight(_, _)
OccurrenceWeight(text_lower, keywords) ==
    IF keywords = <<>> THEN Zero
    ELSE RAdd(RMul(Head(keywords).weight, R(Occurrences(text_lower, Head(keywords).keyword), 1)),
              OccurrenceWeight(text_lower, Tail(keywords)))

\* _score_text adding a keyword's weight for every occurrence
_score_text_PerOccurrence(t, keywords) ==
    IF t = None \/ t = <<>> THEN Zero
    ELSE IF RGt(SumWeights(keywords), Zero)
         THEN RMin(Ten, RMul(RDiv(OccurrenceWeight(Lower(t), keywords), SumWeights(keywords)), Ten))
         ELSE Zero

_score_text(t, keywords) ==
    IF t = None \/ t = <<>> THEN Zero
    ELSE LET text_lower == Lower(t)
             score == MatchedWeight(text_lower, keywords)
             max_score == SumWeights(keywords)
             normalized == IF RGt(max_score, Zero) THEN RMul(RDiv(score, max_score), Ten)
                           ELSE Zero
         IN  RMin(Ten, normalized)

\* sep.join(ls)
RECURSIVE Join(_, _)
Join(sep, ls) ==
    IF ls = <<>> THEN <<>>
    ELSE IF Len(ls) = 1 THEN ls[1]
    ELSE ls[1] \o sep \o Join(sep, Tail(ls))

_analyze_strengths(strengths) ==
    LET combined_text == Lower(Join(<<" ">>, strengths))
    IN  [design_focus |-> _score_text(combined_text, DESIGN_KEYWORDS),
         animation_focus |-> _score_text(combined_text, ANIMATION_KEYWORDS),
         ai_features |-> _score_text(combined_text, FEATURE_KEYWORDS),
         ux_emphasis |-> _score_text(combined_text, UX_KEYWORDS)]

PriceWord == <<"u0446", "u0435", "u043d", "u0430">>

AiWord == <<"a", "i">>

\* _generate_recommendations with the price test moved to the front
_generate_recommendations_PriceFirst(design, animation, features, ux, weaknesses) ==
    LET weak == Lower(Join(<<" ">>, weaknesses))
        five == R(5, 1)
        six == R(6, 1)
    IN  (IF Contains(weak, PriceWord) THEN <<"price">> ELSE <<>>)
        \o (IF RLt(design, five) THEN <<"design">> ELSE <<>>)
        \o (IF RLt(animation, five) THEN <<"animation">> ELSE <<>>)
        \o (IF RLt(features, five) THEN <<"features">> ELSE <<>>)
        \o (IF RLt(ux, five) THEN <<"ux">> ELSE <<>>)
        \o (IF ~Contains(weak, AiWord) /\ RGt(features, six) THEN <<"ai_threat">> ELSE <<>>)

\* _generate_recommendations with <= 5 for < 5 and >= 6 for > 6
_generate_recommendations_Inclusive(design, animation, features, ux, weaknesses) ==
    LET weak == Lower(Join(<<" ">>, weaknesses))
        five == R(5, 1)
        six == R(6, 1)
    IN  (IF RLe(design, five) THEN <<"design">> ELSE <<>>)
        \o (IF RLe(animation, five) THEN <<"animation">> ELSE <<>>)
        \o (IF RLe(features, five) THEN <<"features">> ELSE <<>>)
        \o (IF RLe(ux, five) THEN <<"ux">> ELSE <<>>)
        \o (IF Contains(weak, PriceWord) THEN <<"price">> ELSE <<>>)
        \o (IF ~Contains(weak, AiWord) /\ RGe(features, six) THEN <<"ai_threat">> ELSE <<>>)

\* _generate_recommendations asking for more features below 7, not below 5.
_generate_recommendations_FeaturesBelow7(design, animation, features, ux, weaknesses) ==
    LET weak == Lower(Join(<<" ">>, weaknesses))
        five == R(5, 1)
        six == R(6, 1)
    IN  (IF RLt(design, five) THEN <<"design">> ELSE <<>>)
        \o (IF RLt(animation, five) THEN <<"animation">> ELSE <<>>)
        \o (IF RLt(features, R(7, 1)) THEN <<"features">> ELSE <<>>)
        \o (IF RLt(ux, five) THEN <<"ux">> ELSE <<>>)
        \o (IF Contains(weak, PriceWord) THEN <<"price">> ELSE <<>>)
        \o (IF ~Contains(weak, AiWord) /\ RGt(features, six) THEN <<"ai_threat">> ELSE <<>>)

\* The recommendations, each named by its subject.
_generate_recommendations(design, animation, features, ux, weaknesses) ==
    LET weak == Lower(Join(<<" ">>, weaknesses))
        five == R(5, 1)
        six == R(6, 1)
    IN  (IF RLt(design, five) THEN <<"design">> ELSE <<>>)
        \o (IF RLt(animation, five) THEN <<"animation">> ELSE <<>>)
        \o (IF RLt(features, five) THEN <<"features">> ELSE <<>>)
        \o (IF RLt(ux, five) THEN <<"ux">> ELSE <<>>)
        \o (IF Contains(weak, PriceWord) THEN <<"price">> ELSE <<>>)
        \o (IF ~Contains(weak, AiWord) /\ RGt(features, six) THEN <<"ai_threat">> ELSE <<>>)

HighThreshold == R(15, 2)

MediumThreshold == R(5, 1)

\* Lines 133-138 with > for >=.
ThreatLevel_Strict(overall_score) ==
    IF RGt(overall_score, HighThreshold) THEN "high"
    ELSE IF RGt(overall_score, MediumThreshold) THEN "medium"
    ELSE "low"

\* Lines 133-138
ThreatLevel(overall_score) ==
    IF RGe(overall_score, HighThreshold) THEN "high"
    ELSE IF RGe(overall_score, MediumThreshold) THEN "medium"
    ELSE "low"

\* Mean4 dividing by 3
Mean4_OfThree(a, b, c, d) == RDiv(RAdd(RAdd(RAdd(a, b), c), d), R(3, 1))

\* (design_score + animation_potential + feature_richness + ux_rating) / 4
Mean4(a, b, c, d) == RDiv(RAdd(RAdd(RAdd(a, b), c), d), R(4, 1))

\* The joined text of line 115
CombinedText(a) ==
    Join(<<" ">>,
         <<Join(<<" ">>, a.strengths), Join(<<" ">>, a.weaknesses),
           Join(<<" ">>, a.unique_offers), a.summary>>)

score_competitor_text(a) ==
    LET combined_text == CombinedText(a)
        design_score == _score_text(combined_text, DESIGN_KEYWORDS)
        animation_potential == _score_text(combined_text, ANIMATION_KEYWORDS)
        feature_richness == _score_text(combined_text, FEATURE_KEYWORDS)
        ux_rating == _score_text(combined_text, UX_KEYWORDS)
        strengths_analysis == _analyze_strengths(a.strengths)
        overall_score == Mean4(design_score, animation_potential, feature_richness, ux_rating)
    IN  [design_score |-> Round2(design_score),
         animation_potential |-> Round2(animation_potential),
         feature_richness |-> Round2(feature_richness),
         ux_rating |-> Round2(ux_rating),
         overall_threat_level |-> ThreatLevel(overall_score),
         overall_score |-> Round2(overall_score),
         strengths_analysis |->
             [design_focus |-> Round2(strengths_analysis.design_focus),
              animation_focus |-> Round2(strengths_analysis.animation_focus),
              ai_features |-> Round2(strengths_analysis.ai_features),
              ux_emphasis |-> Round2(strengths_analysis.ux_emphasis)],
         recommendations |->
             _generate_recommendations(design_score, animation_potential, feature_richness,
                                      ux_rating, a.weaknesses)]

\* One call of _score_text: the next text and category, in order.
ScoreText ==
    /\ Len(scored) < Len(texts) * Len(Categories)
    /\ \A k \in DOMAIN scored : scored[k] # Raised
    /\ scored' =
           Append(scored,
                  _score_text(texts[(Len(scored) \div Len(Categories)) + 1],
                             tables[Categories[(Len(scored) % Len(Categories)) + 1]]))
    /\ UNCHANGED <<tables, texts, parseVars, entityVars, callVars>>

\* One call of score_competitor_text.
ScoreCompetitor ==
    /\ epc = "call"
    /\ entity_score' = score_competitor_text(analysis)
    /\ epc' = "done"
    /\ UNCHANGED <<analysis, parseVars, textVars, callVars>>

\* d.get(k, default) on a dict d
Get(d, k, default) == IF k \in DOMAIN d THEN d[k] ELSE default

\* key=lambda x: x[1].get("overall_score", 0)
SortKey(item) == Get(item.score, "overall_score", Zero)

\* InsertDesc placing an item before the items of equal key
RECURSIVE InsertDesc_BeforeEqual(_, _)
InsertDesc_BeforeEqual(x, ls) ==
    IF ls = <<>> THEN <<x>>
    ELSE IF RGt(SortKey(ls[1]), SortKey(x)) THEN <<ls[1]>> \o InsertDesc_BeforeEqual(x, Tail(ls))
    ELSE <<x>> \o ls

\* One step of the stable sort: x goes behind every item whose key is not
\* smaller than its own.
RECURSIVE InsertDesc(_, _)
InsertDesc(x, ls) ==
    IF ls = <<>> THEN <<x>>
    ELSE IF RGe(SortKey(ls[1]), SortKey(x)) THEN <<ls[1]>> \o InsertDesc(x, Tail(ls))
    ELSE <<x>> \o ls

\* sorted(scores.items(), key=..., reverse=True): descending and stable
RECURSIVE competitors_sorted(_)
competitors_sorted(items) ==
    IF items = <<>> THEN <<>>
    ELSE InsertDesc(items[Len(items)], competitors_sorted(SubSeq(items, 1, Len(items) - 1)))

\* CountLevel counting the distinct records of a level
CountLevel_Distinct(items, level) ==
    Cardinality({items[i].score : i \in {j \in DOMAIN items :
        /\ "overall_threat_level" \in DOMAIN items[j].score
        /\ items[j].score.overall_threat_level = level}})

\* sum(1 for _, s in scores.items() if s.get("overall_threat_level") == level)
CountLevel(items, level) ==
    Cardinality({i \in DOMAIN items :
        /\ "overall_threat_level" \in DOMAIN items[i].score
        /\ items[i].score.overall_threat_level = level})

RECURSIVE SumField(_, _)
SumField(items, field) ==
    IF items = <<>> THEN Zero
    ELSE RAdd(SumField(SubSeq(items, 1, Len(items) - 1), field),
              Get(items[Len(items)].score, field, Zero))

\* sum(s.get(field, 0) for s in scores.values()) / len(scores) if scores else 0
Average(items, field) ==
    IF items = <<>> THEN Zero ELSE RDiv(SumField(items, field), R(Len(items), 1))

\* _assess_maturity with > for >=
_assess_maturity_Strict(design, animation, features, ux) ==
    LET avg_score == Mean4(design, animation, features, ux)
    IN  IF RGt(avg_score, HighThreshold) THEN "mature"
        ELSE IF RGt(avg_score, MediumThreshold) THEN "growing"
        ELSE "emerging"

_assess_maturity(design, animation, features, ux) ==
    LET avg_score == Mean4(design, animation, features, ux)
    IN  IF RGe(avg_score, HighThreshold) THEN "mature"
        ELSE IF RGe(avg_score, MediumThreshold) THEN "growing"
        ELSE "emerging"

\* a lies halfway between two numbers of two decimals
Halfway(a) == (a.n * 200) % a.d = 0 /\ ((a.n * 200) \div a.d) % 2 = 1

\* round(a, 2) on the float a.  The float nearest to a number that is halfway
\* between two numbers of two decimals lies a little above or below it, and
\* round() goes to the neighbour nearer to the float: both are possible.
RoundFloat(a) ==
    IF Halfway(a)
    THEN {R(((a.n * 200) \div a.d) - 1, 200), R(((a.n * 200) \div a.d) + 1, 200)}
    ELSE {Round2(a)}

\* The dicts _analyze_market can return
_analyze_market(items) ==
    LET avg_design == Average(items, "design_score")
        avg_animation == Average(items, "animation_potential")
        avg_features == Average(items, "feature_richness")
        avg_ux == Average(items, "ux_rating")
    IN  {[avg_design_score |-> d,
          avg_animation_potential |-> a,
          avg_feature_richness |-> f,
          avg_ux_rating |-> u,
          market_maturity |-> _assess_maturity(avg_design, avg_animation, avg_features, avg_ux)] :
            d \in RoundFloat(avg_design), a \in RoundFloat(avg_animation),
            f \in RoundFloat(avg_features), u \in RoundFloat(avg_ux)}

KeyError == [raised |-> "KeyError"]

\* The dicts compare_competitors can return.  The dict is built entry by
\* entry: score["overall_score"] of the ranking raises KeyError on a record
\* without that key, before the other entries.
compare_competitors(items) ==
    IF \E i \in DOMAIN items : "overall_score" \notin DOMAIN items[i].score
    THEN {KeyError}
    ELSE LET sorted == competitors_sorted(items)
         IN  {[ranking |-> [i \in DOMAIN sorted |->
                               [name |-> sorted[i].name, score |-> sorted[i].score.overall_score]],
               threat_levels |-> [high |-> CountLevel(items, "high"),
                                  medium |-> CountLevel(items, "medium"),
                                  low |-> CountLevel(items, "low")],
               market_analysis |-> m] : m \in _analyze_market(items)}

\* One call of compare_competitors.
CompareCompetitors ==
    /\ cpc = "call"
    /\ \E c \in compare_competitors(scores) :
           /\ comparison' = c
           /\ cpc' = IF c = KeyError THEN "error" ELSE "done"
    /\ UNCHANGED <<scores, parseVars, textVars, entityVars, recVars, handlerVars, repeatVars,
                   serviceVars>>

\* One call of _generate_recommendations.
GenerateRecommendations ==
    /\ recs = None
    /\ recs' = _generate_recommendations(rec_args.design, rec_args.animation, rec_args.features,
                                         rec_args.ux, rec_args.weaknesses)
    /\ UNCHANGED <<rec_args, parseVars, textVars, entityVars, compareVars, handlerVars,
                   repeatVars, serviceVars>>

-----------------------------------------------------------------------------
(* analyze_text_scored of backend/main.py, from the text the API returned.  *)

\* The methods class DesignToolsScoringService defines
ScorerMethods ==
    {"__init__", "_score_text", "_analyze_strengths", "score_competitor_text",
     "score_competitor_image", "_generate_recommendations", "compare_competitors",
     "_analyze_market", "_assess_maturity"}

\* Lines 274-280 for one competitor: scorer.score_text(...) inside try.  The
\* lookup of an attribute the class does not define raises AttributeError,
\* and the except branch stores {}.
ScoreOne(competitor) ==
    IF "score_text" \in ScorerMethods
    THEN [competitor EXCEPT !.score = [returned_by |-> "score_text", of |-> competitor.description]]
    ELSE [competitor EXCEPT !.score = EmptyDict]

\* Lines 199-205 and 261-262: 503 without a scorer, 502 on an empty answer of
\* the API; otherwise the parser is called on the answer.
HandlerEnter ==
    /\ hpc = "call"
    /\ hpc' = IF scorer = "None" THEN "http503" ELSE IF IsFalsy(text) THEN "http502" ELSE "parse"
    /\ pc' = IF scorer # "None" /\ ~IsFalsy(text) THEN "call" ELSE pc
    /\ UNCHANGED <<text, pattern, pos, seen_names, competitors, result, outcome, scorer, response,
                   textVars, entityVars, recVars, compareVars, repeatVars, serviceVars>>

\* Lines 268-294: the scoring loop over the parsed competitors and the
\* response.
HandlerApplyScoring ==
    /\ hpc = "parse"
    /\ pc = "done"
    /\ response' =
           IF scorer # "None" /\ result # <<>>
           THEN [i \in DOMAIN result |-> ScoreOne(result[i])]
           ELSE result
    /\ hpc' = "done"
    /\ UNCHANGED <<scorer, parseVars, textVars, entityVars, recVars, compareVars, repeatVars,
                   serviceVars>>

-----------------------------------------------------------------------------
(* Calls of score_competitor_text by independent requests, a step at a     *)
(* time.  The calls share the scorer and its class attributes; every call  *)
(* has its own local variables.                                            *)

Requests == {1, 2}

\* A request that is about to call score_competitor_text(a)
NewRequest(a) ==
    [analysis |-> a, pc |-> "call", combined_text |-> <<>>, text_lower |-> <<>>, category |-> 1,
     keyword |-> 1, score |-> Zero, sub |-> <<>>, result |-> EmptyDict]

\* `score` kept in one place for all calls, as an attribute of the scorer
\* would be.
ScoreSlot_Shared(r) == Min(Requests)

\* The call whose local variable `score` (line 71) a step of request r uses
ScoreSlot(r) == r

\* Lines 140-152 for the four values _score_text returned
ScoreRecord(a, design_score, animation_potential, feature_richness, ux_rating) ==
    LET strengths_analysis == _analyze_strengths(a.strengths)
        overall_score == Mean4(design_score, animation_potential, feature_richness, ux_rating)
    IN  [design_score |-> Round2(design_score),
         animation_potential |-> Round2(animation_potential),
         feature_richness |-> Round2(feature_richness),
         ux_rating |-> Round2(ux_rating),
         overall_threat_level |-> ThreatLevel(overall_score),
         overall_score |-> Round2(overall_score),
         strengths_analysis |->
             [design_focus |-> Round2(strengths_analysis.design_focus),
              animation_focus |-> Round2(strengths_analysis.animation_focus),
              ai_features |-> Round2(strengths_analysis.ai_features),
              ux_emphasis |-> Round2(strengths_analysis.ux_emphasis)],
         recommendations |->
             _generate_recommendations(design_score, animation_potential, feature_richness,
                                      ux_rating, a.weaknesses)]

\* Lines 115-123: combined_text is built and the first _score_text is
\* entered (text_lower = text.lower(), score = 0.0).
RequestEnter ==
    \E r \in DOMAIN req :
        /\ req[r].pc = "call"
        /\ req' = [req EXCEPT ![r].pc = "loop",
                              ![r].combined_text = CombinedText(req[r].analysis),
                              ![r].text_lower = Lower(CombinedText(req[r].analysis)),
                              ![r].category = 1, ![r].keyword = 1,
                              ![ScoreSlot(r)].score = Zero]
        /\ UNCHANGED <<parseVars, textVars, entityVars, recVars, compareVars, handlerVars,
                       repeatVars, historyVars, storeVars>>

\* Lines 73-75: one iteration of the loop over keywords.items(), on the class
\* attribute of the category.
ScoreKeyword ==
    \E r \in DOMAIN req :
        LET combined_text == req[r].combined_text
            keywords == tables[Categories[req[r].category]]
            k == req[r].keyword
        IN  /\ req[r].pc = "loop"
            /\ ~IsFalsy(combined_text)
            /\ k <= Len(keywords)
            /\ req' = [req EXCEPT
                          ![ScoreSlot(r)].score =
                              IF Contains(req[r].text_lower, keywords[k].keyword)
                              THEN RAdd(@, keywords[k].weight)
                              ELSE @,
                          ![r].keyword = k + 1]
            /\ UNCHANGED <<parseVars, textVars, entityVars, recVars, compareVars, handlerVars,
                           repeatVars, historyVars, storeVars>>

\* Lines 67-68 and 78-81: _score_text returns, and the caller enters the
\* _score_text of the next category (lines 122-125) if there is one.
ScoreTextReturn ==
    \E r \in DOMAIN req :
        LET combined_text == req[r].combined_text
            keywords == tables[Categories[req[r].category]]
            score == req[ScoreSlot(r)].score
            max_score == SumWeights(keywords)
            normalized == IF RGt(max_score, Zero) THEN RMul(RDiv(score, max_score), Ten)
                          ELSE Zero
            returned == IF IsFalsy(combined_text) THEN Zero ELSE RMin(Ten, normalized)
            last == req[r].category = Len(Categories)
        IN  /\ req[r].pc = "loop"
            /\ IsFalsy(combined_text) \/ req[r].keyword > Len(keywords)
            /\ req' = [req EXCEPT
                          ![r].sub = Append(@, returned),
                          ![r].category = IF last THEN @ ELSE @ + 1,
                          ![r].keyword = 1,
                          ![r].pc = IF last THEN "scored" ELSE "loop",
                          ![ScoreSlot(r)].score = Zero]
            /\ UNCHANGED <<parseVars, textVars, entityVars, recVars, compareVars, handlerVars,
                           repeatVars, historyVars, storeVars>>

\* Lines 128-155: the strengths analysis, the threat level, the record.
RequestReturn ==
    \E r \in DOMAIN req :
        /\ req[r].pc = "scored"
        /\ req' = [req EXCEPT
                      ![r].result = ScoreRecord(req[r].analysis, req[r].sub[1], req[r].sub[2],
                                                req[r].sub[3], req[r].sub[4]),
                      ![r].pc = "done"]
        /\ UNCHANGED <<parseVars, textVars, entityVars, recVars, compareVars, handlerVars,
                       repeatVars, historyVars, storeVars>>

-----------------------------------------------------------------------------
(* HistoryService of backend/services/historyservice.py.  history.json     *)
(* holds a JSON list of entries.  A summary is modelled by its length, and *)
(* str(uuid.uuid4()) and datetime.now() by the number of the entry among   *)
(* those created.  An int n is PyInt(n), beside None.                      *)

max_history_items == 10

MaxRequestSummary == 200

MaxResponseSummary == 500

PyInt(n) == <<"int", n>>

\* json.dumps of a list of entries: None is written null, an int as a number
dumps(history) ==
    [i \in DOMAIN history |->
        [history[i] EXCEPT !.tokens_used = IF @ = None THEN <<"null">> ELSE <<"number", @[2]>>]]

\* json.loads of the text dumps wrote: null is read as None
loads(content) ==
    [i \in DOMAIN content |->
        [content[i] EXCEPT !.tokens_used = IF @ = <<"null">> THEN None ELSE PyInt(@[2])]]

\* Lines 53-57: read_text and json.loads
load_history == loads(history_file)

\* Lines 111-118 for the entry created as number now
ItemDict(args, now) ==
    [id |-> now,
     timestamp |-> now,
     request_type |-> args.request_type,
     request_summary |-> Min({args.request_summary, MaxRequestSummary}),
     response_summary |-> Min({args.response_summary, MaxResponseSummary}),
     tokens_used |-> args.tokens_used]

\* history.insert(0, item_dict)
InsertFront(history, item_dict) == <<item_dict>> \o history

\* The cut written history[-self.max_items:]
Truncate_KeepLast(history) ==
    SubSeq(history, Max({1, Len(history) - max_history_items + 1}), Len(history))

\* history[:self.max_items]
Truncate(history) == SubSeq(history, 1, Min({Len(history), max_history_items}))

\* A caller that is not inside a call
NoCall == [op |-> "none", pc |-> "idle", args |-> <<>>, history |-> <<>>, item_dict |-> <<>>]

\* Whether no caller is inside a call
Quiet == \A p \in DOMAIN hcall : hcall[p].pc \in {"idle", "done"}

MaxAdds == 11

\* The arguments of add_entry: a call that omits tokens_used with a request
\* summary longer than the cut, and a call that gives tokens_used
EntryArgs ==
    { [request_type |-> "text", request_summary |-> 250, response_summary |-> 40,
       tokens_used |-> None],
      [request_type |-> "image", request_summary |-> 12, response_summary |-> 620,
       tokens_used |-> PyInt(120)] }

\* add_entry is called while no other call runs.
AddEntryCall ==
    \E p \in DOMAIN hcall, args \in EntryArgs :
        /\ Quiet
        /\ clock < MaxAdds
        /\ hcall' = [hcall EXCEPT ![p] = [NoCall EXCEPT !.op = "add_entry", !.pc = "call",
                                                        !.args = args]]
        /\ UNCHANGED <<history_file, clock, hreturn, parseVars, textVars, entityVars, recVars,
                       compareVars, handlerVars, repeatVars, requestVars, storeVars>>

\* Line 104: history = self.load_history()
AddEntryLoad ==
    \E p \in DOMAIN hcall :
        /\ hcall[p].op = "add_entry"
        /\ hcall[p].pc = "call"
        /\ hcall' = [hcall EXCEPT ![p].history = load_history, ![p].pc = "loaded"]
        /\ UNCHANGED <<history_file, clock, hreturn, parseVars, textVars, entityVars, recVars,
                       compareVars, handlerVars, repeatVars, requestVars, storeVars>>

\* Lines 107-124: the entry is created, put first, and the list is cut.
AddEntryInsert ==
    \E p \in DOMAIN hcall :
        /\ hcall[p].op = "add_entry"
        /\ hcall[p].pc = "loaded"
        /\ clock' = clock + 1
        /\ LET item_dict == ItemDict(hcall[p].args, clock + 1)
           IN  hcall' = [hcall EXCEPT ![p].item_dict = item_dict,
                                      ![p].history = Truncate(InsertFront(@, item_dict)),
                                      ![p].pc = "save"]
        /\ UNCHANGED <<history_file, hreturn, parseVars, textVars, entityVars, recVars,
                       compareVars, handlerVars, repeatVars, requestVars, storeVars>>

\* Lines 127-135: self.save_history(history) and the return of the entry
AddEntrySave ==
    \E p \in DOMAIN hcall :
        /\ hcall[p].op = "add_entry"
        /\ hcall[p].pc = "save"
        /\ history_file' = dumps(hcall[p].history)
        /\ hreturn' = hcall[p].item_dict
        /\ hcall' = [hcall EXCEPT ![p].pc = "done"]
        /\ UNCHANGED <<clock, parseVars, textVars, entityVars, recVars, compareVars,
                       handlerVars, repeatVars, requestVars, storeVars>>

\* clear_history, called while no other call runs: self.save_history([])
ClearHistory ==
    \E p \in DOMAIN hcall :
        /\ Quiet
        /\ history_file' = dumps(<<>>)
        /\ hreturn' = None
        /\ hcall' = [hcall EXCEPT ![p] = [NoCall EXCEPT !.op = "clear_history", !.pc = "done"]]
        /\ UNCHANGED <<clock, parseVars, textVars, entityVars, recVars, compareVars,
                       handlerVars, repeatVars, requestVars, storeVars>>

\* sum(1 for h in history if h.get("request_type") == t)
RECURSIVE CountType(_, _)
CountType(history, t) ==
    IF history = <<>> THEN 0
    ELSE (IF Head(history).request_type = t THEN 1 ELSE 0) + CountType(Tail(history), t)

TypeError == [raised |-> "TypeError"]

\* h.get("tokens_used", 0): every entry add_entry wrote has the key, so the
\* default is not taken and the value may be None.
GetTokensUsed(h) == IF "tokens_used" \in DOMAIN h THEN h.tokens_used ELSE PyInt(0)

\* Whether sum(...) of line 165 adds None to an int, which raises TypeError
SumRaises(history) == \E i \in DOMAIN history : GetTokensUsed(history[i]) = None

\* sum(h.get("tokens_used", 0) for h in history) over ints
RECURSIVE SumTokens(_)
SumTokens(history) ==
    IF history = <<>> THEN 0
    ELSE GetTokensUsed(Head(history))[2] + SumTokens(Tail(history))

\* Lines 160-177
get_summary_stats ==
    LET history == load_history
    IN  IF SumRaises(history) THEN TypeError
        ELSE [total_requests |-> Len(history),
              text_requests |-> CountType(history, "text"),
              image_requests |-> CountType(history, "image"),
              parse_requests |-> CountType(history, "parse"),
              total_tokens_used |-> SumTokens(history),
              max_items |-> max_history_items]

\* get_summary_stats, called while no other call runs
GetSummaryStats ==
    \E p \in DOMAIN hcall :
        /\ Quiet
        /\ hreturn' = get_summary_stats
        /\ hcall' = [hcall EXCEPT ![p] = [NoCall EXCEPT !.op = "get_summary_stats", !.pc = "done"]]
        /\ UNCHANGED <<history_file, clock, parseVars, textVars, entityVars, recVars,
                       compareVars, handlerVars, repeatVars, requestVars, storeVars>>

-----------------------------------------------------------------------------
(* The routes of main.py and backend/main_simple.py that look up rows of   *)
(* table analyses of analyses.db.  The rows have the ids 1..rows: the only *)
(* statement that writes the table is the INSERT of save_analysis, on an   *)
(* autoincrement key.                                                      *)

MaxRows == 3

\* The ids a request may name: those of the rows and one that is never stored
Ids == 1..(MaxRows + 1)

\* raise HTTPException(status_code=...)
HTTPException(status_code) == [raised |-> "HTTPException", status_code |-> status_code]

\* An error of the PDF library or of the file system
OSError == [raised |-> "OSError", status_code |-> 0]

\* The classes each exception class derives from
Bases == [HTTPException |-> {"Exception", "BaseException"},
          OSError |-> {"Exception", "BaseException"}]

\* Whether `except class` catches what was raised
Catches(class, raised) == raised.raised = class \/ class \in Bases[raised.raised]

Raises(value) == "raised" \in DOMAIN value

\* try: body / except Exception as e: raise HTTPException(status_code=500, ...)
ExceptException(body) ==
    IF Raises(body) /\ Catches("Exception", body) THEN HTTPException(500) ELSE body

\* The status FastAPI answers with: that of the HTTPException raised, 500 for
\* any other exception, 200 for a value returned
StatusOf(value) ==
    IF ~Raises(value) THEN 200
    ELSE IF value.raised = "HTTPException" THEN value.status_code
    ELSE 500

\* cursor.fetchone() for SELECT ... WHERE id = ?
FetchOne(id) == IF id \in 1..rows THEN <<"row", id>> ELSE None

\* The answer recorded for a request on the ids
Answer(route, ids, value) ==
    [route |-> route, ids |-> ids, stored |-> rows, status |-> StatusOf(value)]

\* save_analysis of main_simple.py, called by its route /analyzetext
SaveAnalysis ==
    /\ rows < MaxRows
    /\ rows' = rows + 1
    /\ UNCHANGED <<http, parseVars, textVars, entityVars, recVars, compareVars, handlerVars,
                   repeatVars, requestVars, historyVars>>

\* main.py, get_analysis
get_analysis(id) ==
    ExceptException(IF FetchOne(id) # None THEN [analysis |-> FetchOne(id)]
                    ELSE HTTPException(404))

GetAnalysis ==
    \E id \in Ids :
        /\ http' = Answer("main.get_analysis", <<id>>, get_analysis(id))
        /\ UNCHANGED <<rows, parseVars, textVars, entityVars, recVars, compareVars, handlerVars,
                       repeatVars, requestVars, historyVars>>

\* main.py, export_pdf; the canvas is saved or the write fails
export_pdf(id, saved) ==
    ExceptException(IF FetchOne(id) = None THEN HTTPException(404)
                    ELSE IF saved THEN [pdf |-> id]
                    ELSE OSError)

ExportPdf ==
    \E id \in Ids, saved \in BOOLEAN :
        /\ http' = Answer("main.export_pdf", <<id>>, export_pdf(id, saved))
        /\ UNCHANGED <<rows, parseVars, textVars, entityVars, recVars, compareVars, handlerVars,
                       repeatVars, requestVars, historyVars>>

\* main_simple.py, export_pdf; generate_pdf builds the file or fails
simple_export_pdf(analysis_id, built) ==
    ExceptException(IF FetchOne(analysis_id) = None THEN HTTPException(404)
                    ELSE IF built THEN [pdf |-> analysis_id]
                    ELSE OSError)

SimpleExportPdf ==
    \E analysis_id \in Ids, built \in BOOLEAN :
        /\ http' = Answer("main_simple.export_pdf", <<analysis_id>>,
                          simple_export_pdf(analysis_id, built))
        /\ UNCHANGED <<rows, parseVars, textVars, entityVars, recVars, compareVars, handlerVars,
                       repeatVars, requestVars, historyVars>>

\* main_simple.py, compare_competitors: the rows found for analysis_ids
FoundRows(analysis_ids) ==
    LET Found(id) == FetchOne(id) # None
    IN  SelectSeq(analysis_ids, Found)

simple_compare_competitors(analysis_ids) ==
    LET found == FoundRows(analysis_ids)
    IN  ExceptException(IF found = <<>> THEN HTTPException(404)
                        ELSE [success |-> TRUE, competitors |-> found])

MaxIds == 2

SimpleCompareCompetitors ==
    \E n \in 0..MaxIds :
        \E analysis_ids \in [1..n -> Ids] :
            /\ http' = Answer("main_simple.compare_competitors", analysis_ids,
                              simple_compare_competitors(analysis_ids))
            /\ UNCHANGED <<rows, parseVars, textVars, entityVars, recVars, compareVars,
                           handlerVars, repeatVars, requestVars, historyVars>>

-----------------------------------------------------------------------------
(* The arguments the scorer is called with.                                *)

MaxWords == 2

Vocabulary ==
    << <<"a", "i">>, <<"A", "I">>, <<"m", "l">>,
       <<"C", "a", "n", "v", "a", "s">>,
       <<"v", "e", "c", "t", "o", "r">>,
       <<"u0410", "u043d", "u0438", "u043c", "u0430", "u0446", "u0438", "u044f">>,
       <<"m", "a", "i", "n", "t", "a", "i", "n">>,
       <<"a", "1", "1", "y">> >>

\* Tables other than the class attributes: an empty one, one whose weights
\* are all 0, and two with positive weights.
OtherTables ==
    [design |-> <<>>,
     animation |-> <<KW(<<"a", "i">>, 0, 1), KW(<<"m", "l">>, 0, 1)>>,
     features |-> <<KW(<<"a", "i">>, 1, 1)>>,
     ux |-> <<KW(<<"a", "i">>, 1, 2), KW(<<"c", "a", "n", "v", "a", "s">>, 5, 2),
              KW(<<"m", "l">>, 7, 1)>>]

TableChoices == {ClassTables, OtherTables}

\* Up to MaxWords words of Vocabulary, separated by a space.
WordTexts ==
    {Join(<<" ">>, [i \in DOMAIN f |-> Vocabulary[f[i]]]) :
        f \in UNION {[1..k -> DOMAIN Vocabulary] : k \in 0..MaxWords}}

Keywords(table, n) == [i \in 1..n |-> table[i].keyword]

\* Every keyword of one table
FullTexts ==
    {Join(<<" ">>, Keywords(T[Categories[c]], Len(T[Categories[c]]))) :
        T \in TableChoices, c \in DOMAIN Categories}

ScoreTexts == WordTexts \cup FullTexts \cup {FigmaDesc, SketchDesc, <<" ">>}

\* One text, or the descriptions of two entities of one response.
Batches ==
    {<<t>> : t \in ScoreTexts} \cup {<<t, u>> : t, u \in {FigmaDesc, SketchDesc, <<>>}}

WeaknessLists ==
    { <<>>,
      <<<<"u0426", "u0435", "u043d", "u0430", " ", "u0432", "u044b", "u0441", "u043e", "u043a", "u0430", "u044f">>>>,
      <<<<"n", "o", " ", "A", "I", " ", "t", "o", "o", "l", "s">>,
        <<"u0446", "u0435", "u043d", "u0430">>>> }

\* The weaknesses "no AI tools" and the price keyword
AiAndPriceWeaknesses ==
    <<<<"n", "o", " ", "A", "I", " ", "t", "o", "o", "l", "s">>,
      <<"u0446", "u0435", "u043d", "u0430">>>>

EmptyAnalysis == [strengths |-> <<>>, weaknesses |-> <<>>, unique_offers |-> <<>>, summary |-> <<>>]

\* How many keywords of each table an analysis mentions, from the first on.
DesignLevels == {0, 1, Len(DESIGN_KEYWORDS)}

AnimationLevels == {0, 1, 2, Len(ANIMATION_KEYWORDS)}

FeatureLevels == {0, 7, Len(FEATURE_KEYWORDS)}

UxLevels == {0, 7, 8, Len(UX_KEYWORDS)}

Analyses ==
    {[strengths |-> Keywords(DESIGN_KEYWORDS, i) \o Keywords(ANIMATION_KEYWORDS, j),
      weaknesses |-> w,
      unique_offers |-> Keywords(FEATURE_KEYWORDS, k),
      summary |-> Join(<<",", " ">>, Keywords(UX_KEYWORDS, l))] :
        i \in DesignLevels, j \in AnimationLevels, k \in FeatureLevels, l \in UxLevels,
        w \in WeaknessLists}

\* Sub-scores around the thresholds 5 and 6 of _generate_recommendations
RecScores == {Zero, R(499, 100), R(5, 1), R(6, 1), R(601, 100), Ten}

NoRecArgs == [design |-> Zero, animation |-> Zero, features |-> Zero, ux |-> Zero, weaknesses |-> <<>>]

\* Weaknesses: those of the analyses, the two words split over two items, and
\* "ai" inside a longer word.
RecWeaknesses ==
    WeaknessLists \cup
        { << <<"a">>, <<"i">> >>,
          << <<"u0446", "u0435">>, <<"u043d", "u0430">> >>,
          << <<"H", "a", "r", "d", " ", "t", "o", " ", "m", "a", "i", "n", "t", "a", "i", "n">> >> }

RecArgs ==
    {[design |-> d, animation |-> a, features |-> f, ux |-> u, weaknesses |-> w] :
        d \in {R(499, 100), R(5, 1)}, a \in {Zero, Ten}, f \in RecScores,
        u \in {R(499, 100), R(5, 1), Ten}, w \in RecWeaknesses}

MaxEntities == 3

\* The analysis that mentions the first i, j, k and l keywords of the tables
AnalysisOf(i, j, k, l) ==
    [strengths |-> Keywords(DESIGN_KEYWORDS, i) \o Keywords(ANIMATION_KEYWORDS, j),
     weaknesses |-> <<>>,
     unique_offers |-> Keywords(FEATURE_KEYWORDS, k),
     summary |-> Join(<<",", " ">>, Keywords(UX_KEYWORDS, l))]

\* Records of score_competitor_text with the overall scores 8.0, 6.0 and 3.0
Score8 == score_competitor_text(AnalysisOf(0, 9, 12, 8))

Score6 == score_competitor_text(AnalysisOf(0, 6, 5, 8))

Score3 == score_competitor_text(AnalysisOf(0, 1, 7, 2))

\* The Score records compare_competitors is given: records returned by
\* score_competitor_text, the {} of an entity whose scoring failed, and
\* records with a single key.
ScorePool ==
    { Score8, Score6, Score3,
      score_competitor_text(EmptyAnalysis),
      score_competitor_text(AnalysisOf(0, 0, 12, 9)),
      score_competitor_text(AnalysisOf(0, 0, 1, 3)),
      score_competitor_text(AnalysisOf(9, 4, 5, 4)),
      score_competitor_text(AnalysisOf(10, 2, 11, 7)),
      EmptyDict,
      [overall_score |-> R(8, 1)],
      [overall_threat_level |-> "high"] }

EntityNames == <<"first", "second", "third", "fourth">>

\* Mappings of up to MaxEntities names, in insertion order
Mappings ==
    UNION {{[i \in 1..n |-> [name |-> EntityNames[i], score |-> f[i]]] : f \in [1..n -> ScorePool]} :
              n \in 0..MaxEntities}

\* The analyses of the two requests
RequestAnalyses ==
    { AnalysisOf(2, 1, 1, 2),
      [strengths |-> <<Vocabulary[5]>>, weaknesses |-> AiAndPriceWeaknesses,
       unique_offers |-> Keywords(FEATURE_KEYWORDS, 2), summary |-> Vocabulary[6]] }

\* The mapping and the arguments of the calls that run beside the requests
RequestScores ==
    <<[name |-> EntityNames[1], score |-> Score3], [name |-> EntityNames[2], score |-> Score8]>>

RequestRecArgs ==
    [design |-> R(499, 100), animation |-> Ten, features |-> R(601, 100), ux |-> R(5, 1),
     weaknesses |-> AiAndPriceWeaknesses]

-----------------------------------------------------------------------------
(* The specifications: one per operation under study.                      *)

ParseIdle ==
    /\ text = <<>>
    /\ pc = "idle"
    /\ pattern = 1
    /\ pos = 1
    /\ seen_names = {}
    /\ competitors = <<>>
    /\ result = <<>>
    /\ outcome = "none"

TextIdle == tables = ClassTables /\ texts = <<>> /\ scored = <<>>

EntityIdle == analysis = EmptyAnalysis /\ epc = "idle" /\ entity_score = EmptyDict

RecIdle == rec_args = NoRecArgs /\ recs = <<>>

CompareIdle == scores = <<>> /\ cpc = "idle" /\ comparison = EmptyDict

HandlerIdle == scorer = "None" /\ hpc = "idle" /\ response = <<>>

RepeatIdle == previous = None /\ calls = 1

RequestIdle == req = <<>>

HistoryIdle == history_file = <<>> /\ clock = 0 /\ hcall = <<>> /\ hreturn = None

StoreIdle == rows = 0 /\ http = <<>>

ServiceIdle == RequestIdle /\ HistoryIdle /\ StoreIdle

CallIdle == RecIdle /\ CompareIdle /\ HandlerIdle /\ RepeatIdle /\ ServiceIdle

\* parse_competitors_from_text on every text of Inputs
InitParse ==
    /\ text \in Inputs
    /\ pc = "call"
    /\ pattern = 1
    /\ pos = 1
    /\ seen_names = {}
    /\ competitors = <<>>
    /\ result = <<>>
    /\ outcome = "none"
    /\ TextIdle
    /\ EntityIdle
    /\ CallIdle

NextParse == ParseEnter \/ ParseMatch \/ ParseNextPattern \/ ParseReturn

SpecParse == InitParse /\ [][NextParse]_vars

\* _score_text on every text of a batch, for the table of every category
InitText ==
    /\ tables \in TableChoices
    /\ texts \in Batches
    /\ scored = <<>>
    /\ ParseIdle
    /\ EntityIdle
    /\ CallIdle

NextText == ScoreText

SpecText == InitText /\ [][NextText]_vars

\* score_competitor_text on every analysis of Analyses
InitEntity ==
    /\ analysis \in Analyses
    /\ epc = "call"
    /\ entity_score = EmptyDict
    /\ ParseIdle
    /\ TextIdle
    /\ CallIdle

NextEntity == ScoreCompetitor

SpecEntity == InitEntity /\ [][NextEntity]_vars

\* _generate_recommendations on every argument tuple of RecArgs
InitRecs ==
    /\ rec_args \in RecArgs
    /\ recs = None
    /\ ParseIdle
    /\ TextIdle
    /\ EntityIdle
    /\ CompareIdle
    /\ HandlerIdle
    /\ RepeatIdle
    /\ ServiceIdle

NextRecs == GenerateRecommendations

SpecRecs == InitRecs /\ [][NextRecs]_vars

\* compare_competitors on every mapping of Mappings
InitCompare ==
    /\ scores \in Mappings
    /\ cpc = "call"
    /\ comparison = EmptyDict
    /\ ParseIdle
    /\ TextIdle
    /\ EntityIdle
    /\ RecIdle
    /\ HandlerIdle
    /\ RepeatIdle
    /\ ServiceIdle

NextCompare == CompareCompetitors

SpecCompare == InitCompare /\ [][NextCompare]_vars

\* analyze_text_scored on every answer of Inputs, with and without a scorer
InitHandler ==
    /\ text \in Inputs
    /\ pc = "idle"
    /\ pattern = 1
    /\ pos = 1
    /\ seen_names = {}
    /\ competitors = <<>>
    /\ result = <<>>
    /\ outcome = "none"
    /\ scorer \in {"DesignToolsScoringService", "None"}
    /\ hpc = "call"
    /\ response = <<>>
    /\ TextIdle
    /\ EntityIdle
    /\ RecIdle
    /\ CompareIdle
    /\ RepeatIdle
    /\ ServiceIdle

NextHandler ==
    \/ HandlerEnter
    \/ ParseEnter
    \/ ParseMatch
    \/ ParseNextPattern
    \/ ParseReturn
    \/ HandlerApplyScoring

SpecHandler == InitHandler /\ [][NextHandler]_vars

\* parse_competitors_from_text called MaxCalls times on every text of Inputs
NextRepeat == ParseEnter \/ ParseMatch \/ ParseNextPattern \/ ParseReturn \/ ParseAgain

SpecRepeat == InitParse /\ [][NextRepeat]_vars

\* Two requests call score_competitor_text at the same time, a step at a
\* time in any order, beside one call of compare_competitors and one of
\* _generate_recommendations.
InitInterleave ==
    /\ req \in [Requests -> {NewRequest(a) : a \in RequestAnalyses}]
    /\ scores = RequestScores
    /\ cpc = "call"
    /\ comparison = EmptyDict
    /\ rec_args = RequestRecArgs
    /\ recs = None
    /\ ParseIdle
    /\ TextIdle
    /\ EntityIdle
    /\ HandlerIdle
    /\ RepeatIdle
    /\ HistoryIdle
    /\ StoreIdle

NextInterleave ==
    \/ RequestEnter
    \/ ScoreKeyword
    \/ ScoreTextReturn
    \/ RequestReturn
    \/ CompareCompetitors
    \/ GenerateRecommendations

SpecInterleave == InitInterleave /\ [][NextInterleave]_vars

\* One caller of HistoryService makes add_entry, clear_history and
\* get_summary_stats calls one after another, from the file "[]" that
\* _ensure_file_exists creates.
InitHistory ==
    /\ history_file = dumps(<<>>)
    /\ clock = 0
    /\ hcall = <<NoCall>>
    /\ hreturn = None
    /\ ParseIdle
    /\ TextIdle
    /\ EntityIdle
    /\ RecIdle
    /\ CompareIdle
    /\ HandlerIdle
    /\ RepeatIdle
    /\ RequestIdle
    /\ StoreIdle

NextHistory ==
    \/ AddEntryCall
    \/ AddEntryLoad
    \/ AddEntryInsert
    \/ AddEntrySave
    \/ ClearHistory
    \/ GetSummaryStats

SpecHistory == InitHistory /\ [][NextHistory]_vars

\* The list add_entry saves as its k-th entry, after k - 1 earlier calls
RECURSIVE HistoryAfter(_)
HistoryAfter(k) ==
    IF k = 0 THEN <<>>
    ELSE Truncate(InsertFront(HistoryAfter(k - 1),
                              ItemDict(CHOOSE args \in EntryArgs : args.request_type = "text", k)))

\* Stored histories with room for two more entries
RoomForBoth == 0..(max_history_items - 2)

\* Two callers are inside add_entry at the same time; their loads, inserts
\* and saves run in any order.
InitHistoryRace ==
    /\ \E k \in RoomForBoth :
           /\ history_file = dumps(HistoryAfter(k))
           /\ clock = k
    /\ hcall \in [{1, 2} ->
                     {[NoCall EXCEPT !.op = "add_entry", !.pc = "call", !.args = args] :
                          args \in EntryArgs}]
    /\ hreturn = None
    /\ ParseIdle
    /\ TextIdle
    /\ EntityIdle
    /\ RecIdle
    /\ CompareIdle
    /\ HandlerIdle
    /\ RepeatIdle
    /\ RequestIdle
    /\ StoreIdle

NextHistoryRace == AddEntryLoad \/ AddEntryInsert \/ AddEntrySave

SpecHistoryRace == InitHistoryRace /\ [][NextHistoryRace]_vars

\* Requests for analyses by id, on a table that starts empty
InitHttp ==
    /\ rows = 0
    /\ http = <<>>
    /\ ParseIdle
    /\ TextIdle
    /\ EntityIdle
    /\ RecIdle
    /\ CompareIdle
    /\ HandlerIdle
    /\ RepeatIdle
    /\ RequestIdle
    /\ HistoryIdle

NextHttp ==
    \/ SaveAnalysis
    \/ GetAnalysis
    \/ ExportPdf
    \/ SimpleExportPdf
    \/ SimpleCompareCompetitors

SpecHttp == InitHttp /\ [][NextHttp]_vars

-----------------------------------------------------------------------------
(* Properties of parse_competitors_from_text, checked under SpecParse.     *)

Names(es) == [i \in DOMAIN es |-> es[i].name]

HasCitation(s) == \E a \in 1..Len(s) : CitationAt(s, a)

EndsWithDot(s) == s # <<>> /\ s[Len(s)] = "."

\* C1: the value returned has at most 10 entities, and they are the first 10
\* of the accepted candidates in the order the loop accepted them (all of
\* them when fewer than 10 were accepted).
C1_AtMostTenInDiscoveryOrder ==
    /\ Len(result) <= MaxCompetitors
    /\ pc = "done" =>
           /\ result = SubSeq(competitors, 1, Len(result))
           /\ Len(result) = MaxCompetitors \/ Len(result) = Len(competitors)

\* More than 10 candidates were accepted and 10 are returned.
C1_Witness ==
    pc = "done" /\ Len(competitors) > MaxCompetitors /\ Len(result) = MaxCompetitors

\* C2: no two entities of one call have names equal up to case.
C2_UniqueNames ==
    /\ \A i, j \in DOMAIN competitors :
           i # j => Lower(competitors[i].name) # Lower(competitors[j].name)
    /\ \A i, j \in DOMAIN result : i # j => Lower(result[i].name) # Lower(result[j].name)

\* "Figma" and "FIGMA" were both candidates with a valid description; one
\* entity is returned.
C2_Witness ==
    /\ pc = "done"
    /\ text = JoinLines(<<Lines[1], Lines[2]>>)
    /\ Names(result) = <<Figma>>

\* C3: every entity returned has a description of 10 to 200 characters.
C3_DescriptionLength ==
    pc = "done" =>
        \A i \in DOMAIN result :
            /\ Len(result[i].description) >= MinDescription
            /\ Len(result[i].description) <= MaxDescription

\* C4: for "", None and a text of blanks only the call returns [] and does
\* not raise.
C4_EmptyInput ==
    (text = None \/ text = <<>> \/ IsBlank(text)) =>
        /\ pc # "error"
        /\ competitors = <<>>
        /\ pc = "done" => result = <<>>

\* The call with None has returned.
C4_Witness == pc = "done" /\ text = None /\ result = <<>>

\* A call with a text of blanks has run the four patterns and returned.
C4_WitnessBlank == pc = "done" /\ IsBlank(text) /\ text # <<>> /\ pattern > Len(patterns)

\* C5 as stated: the one-line scenario yields the entities Figma and Sketch,
\* their descriptions free of "[1]" and of a final period.
C5_ScenarioTwoEntities ==
    (pc = "done" /\ text = ScenarioText) =>
        /\ Names(result) = <<Figma, Sketch>>
        /\ \A i \in DOMAIN result :
               ~HasCitation(result[i].description) /\ ~EndsWithDot(result[i].description)

\* C5 amended: on one line the description of Figma runs to the end of the
\* line, so Figma is the only entity and the Sketch item is inside its
\* description; with the items on two lines the entities are Figma and
\* Sketch.  No description keeps "[1]" or a final period.
C5_ScenarioOneLine ==
    /\ (pc = "done" /\ text = ScenarioText) =>
           /\ Names(result) = <<Figma>>
           /\ Contains(result[1].description, Bold \o Sketch \o Bold)
           /\ ~HasCitation(result[1].description)
           /\ ~EndsWithDot(result[1].description)
    /\ (pc = "done" /\ text = ScenarioLines) =>
           /\ Names(result) = <<Figma, Sketch>>
           /\ result[2].description = SketchDesc
           /\ \A i \in DOMAIN result :
                  ~HasCitation(result[i].description) /\ ~EndsWithDot(result[i].description)

\* The call on the one-line scenario has returned one entity.
C5_Witness == pc = "done" /\ text = ScenarioText /\ Len(result) = 1

\* C20 as stated: no description returned holds a citation marker, that is
\* "[", one or more digits, "]".
C20_NoCitationMarkers ==
    pc = "done" => \A i \in DOMAIN result : ~HasCitation(result[i].description)

\* C21 as stated: every description returned has no white space at either
\* end and no final period, the descriptions cut to 200 characters included.
C21_TrimmedNoFinalPeriod ==
    pc = "done" =>
        \A i \in DOMAIN result :
            /\ Strip(result[i].description) = result[i].description
            /\ ~EndsWithDot(result[i].description)

-----------------------------------------------------------------------------
(* Properties of _score_text, checked under SpecText.                      *)

CategoryOf(k) == Categories[((k - 1) % Len(Categories)) + 1]

\* The arguments of the k-th call
TextOf(k) == texts[((k - 1) \div Len(Categories)) + 1]

TableOf(k) == tables[CategoryOf(k)]

\* The score of the i-th text in category c, once all texts are scored
Score(i, c) ==
    scored[(i - 1) * Len(Categories) + (CHOOSE k \in DOMAIN Categories : Categories[k] = c)]

AllScored == Len(scored) = Len(texts) * Len(Categories)

ScenarioScored == tables = ClassTables /\ texts = <<FigmaDesc, SketchDesc>> /\ AllScored

\* C6 as stated: the feature score and the design score of the Figma text
\* are non-zero and both above the feature score of the Sketch text.
C6_FigmaAboveSketch ==
    ScenarioScored =>
        /\ RGt(Score(1, "features"), Zero)
        /\ RGt(Score(1, "design"), Zero)
        /\ RGt(Score(1, "features"), Score(2, "features"))
        /\ RGt(Score(1, "design"), Score(2, "features"))

\* C6 amended: the feature score and the design score of the Figma text are
\* non-zero; the Sketch text ("... lacking AI") holds the keyword "ai" too,
\* so its feature score equals that of the Figma text, and the design score
\* of the Figma text is below it.
C6_FigmaEqualsSketch ==
    ScenarioScored =>
        /\ RGt(Score(1, "features"), Zero)
        /\ RGt(Score(1, "design"), Zero)
        /\ Score(1, "features") = Score(2, "features")
        /\ RLt(Score(1, "design"), Score(2, "features"))

\* Both texts of the scenario are scored in the four categories.
C6_Witness == ScenarioScored /\ Score(2, "features") = R(30, 23)

PositiveWeights(table) == \A k \in DOMAIN table : RGt(table[k].weight, Zero)

\* C7: with a table of positive weights the score is within [0, 10].
C7_ScoreRange ==
    \A k \in DOMAIN scored :
        PositiveWeights(TableOf(k)) =>
            /\ scored[k] # Raised
            /\ RGe(scored[k], Zero)
            /\ RLe(scored[k], Ten)

\* A text holding every keyword of a class table scored 10.
C7_Witness ==
    /\ tables = ClassTables
    /\ \E k \in DOMAIN scored : scored[k] = Ten /\ Len(TableOf(k)) > 1

\* C8: an empty text, an empty table and a table whose weights sum to 0 each
\* give the score 0; nothing is raised.
C8_DegenerateIsZero ==
    \A k \in DOMAIN scored :
        (TextOf(k) = <<>> \/ TableOf(k) = <<>> \/ SumWeights(TableOf(k)) = Zero) =>
            scored[k] = Zero

\* A text holding a keyword of the zero-weight table was scored with it.
C8_Witness ==
    \E k \in DOMAIN scored :
        /\ TableOf(k) # <<>>
        /\ SumWeights(TableOf(k)) = Zero
        /\ Contains(Lower(TextOf(k)), TableOf(k)[1].keyword)
        /\ scored[k] = Zero

\* The keywords of the table that occur in the lowered text
Occurring(t, table) == {i \in DOMAIN table : Contains(Lower(t), table[i].keyword)}

\* The sum of the weights of the keywords with index in S
RECURSIVE WeightOver(_, _)
WeightOver(table, S) ==
    IF S = {} THEN Zero
    ELSE LET i == CHOOSE j \in S : TRUE
         IN  RAdd(table[i].weight, WeightOver(table, S \ {i}))

\* C22: for a non-empty text and a table of positive weights the score is
\* min(10, W_matched / W_total * 10), W_matched being the weights of the
\* keywords that occur in the lowered text, each counted once, and W_total
\* the weights of all keywords; the score is 10 exactly when every keyword
\* occurs.
C22_ScoreFormula ==
    \A k \in DOMAIN scored :
        (TextOf(k) # <<>> /\ TableOf(k) # <<>> /\ PositiveWeights(TableOf(k))) =>
            /\ scored[k] =
                   RMin(Ten, RMul(RDiv(WeightOver(TableOf(k), Occurring(TextOf(k), TableOf(k))),
                                       WeightOver(TableOf(k), DOMAIN TableOf(k))), Ten))
            /\ scored[k] = Ten <=> Occurring(TextOf(k), TableOf(k)) = DOMAIN TableOf(k)

\* A text in which a keyword of the class table occurs twice was scored
\* below 10.
C22_Witness ==
    \E k \in DOMAIN scored :
        /\ tables = ClassTables
        /\ \E i \in DOMAIN TableOf(k) : Occurrences(Lower(TextOf(k)), TableOf(k)[i].keyword) = 2
        /\ RGt(scored[k], Zero)
        /\ RLt(scored[k], Ten)

-----------------------------------------------------------------------------
(* Properties of score_competitor_text, checked under SpecEntity.          *)

\* C9: the analysis with empty lists and empty summary gets four sub-scores
\* of 0, the overall score 0 and the threat level "low".
C9_EmptyAnalysis ==
    (epc = "done" /\ analysis = EmptyAnalysis) =>
        /\ entity_score.design_score = Zero
        /\ entity_score.animation_potential = Zero
        /\ entity_score.feature_richness = Zero
        /\ entity_score.ux_rating = Zero
        /\ entity_score.overall_score = Zero
        /\ entity_score.overall_threat_level = "low"

C9_Witness == epc = "done" /\ analysis = EmptyAnalysis /\ Len(entity_score.recommendations) > 0

\* The threat level the thresholds give for an overall score x
Band(x) ==
    IF RGe(x, R(15, 2)) THEN "high" ELSE IF RGe(x, R(5, 1)) THEN "medium" ELSE "low"

\* The mean of the four sub-scores of analysis a before any rounding
ExactOverall(a) ==
    Mean4(_score_text(CombinedText(a), DESIGN_KEYWORDS),
          _score_text(CombinedText(a), ANIMATION_KEYWORDS),
          _score_text(CombinedText(a), FEATURE_KEYWORDS),
          _score_text(CombinedText(a), UX_KEYWORDS))

\* C10 as stated: the threat level is the band of the overall score that the
\* record holds.
C10_BandOfRecordedOverall ==
    epc = "done" => entity_score.overall_threat_level = Band(entity_score.overall_score)

\* C10 amended: the threat level is the band of the mean of the four
\* sub-scores before rounding (exactly 7.5 is "high", exactly 5.0 is
\* "medium"); the record holds that mean rounded to two decimals, so a
\* record of level "low" holds an overall score of at most 5.0 and one of
\* level "medium" an overall score from 5.0 to 7.5.
C10_BandOfExactOverall ==
    epc = "done" =>
        /\ entity_score.overall_threat_level = Band(ExactOverall(analysis))
        /\ entity_score.overall_score = Round2(ExactOverall(analysis))
        /\ entity_score.overall_threat_level = "high" =>
               RGe(entity_score.overall_score, R(15, 2))
        /\ entity_score.overall_threat_level = "medium" =>
               RGe(entity_score.overall_score, R(5, 1)) /\ RLe(entity_score.overall_score, R(15, 2))
        /\ entity_score.overall_threat_level = "low" =>
               RLe(entity_score.overall_score, R(5, 1))

\* An analysis whose mean is exactly 7.5 was classified "high".
C10_Witness ==
    /\ epc = "done"
    /\ ExactOverall(analysis) = R(15, 2)
    /\ entity_score.overall_threat_level = "high"

\* An analysis whose mean is below 5.0 and rounds to 5.0 was classified "low".
C10_WitnessRounded ==
    /\ epc = "done"
    /\ entity_score.overall_score = R(5, 1)
    /\ entity_score.overall_threat_level = "low"

\* A quarter of the sum of the four sub-scores the record holds
RecordedMean ==
    RMul(R(1, 4),
         RAdd(RAdd(entity_score.design_score, entity_score.animation_potential),
              RAdd(entity_score.feature_richness, entity_score.ux_rating)))

\* The distance of two numbers is at most e
Within(a, b, e) == RLe(a, RAdd(b, e)) /\ RLe(b, RAdd(a, e))

\* C23 as stated: the overall score of a record is the arithmetic mean of the
\* four sub-scores of the same record, and lies in [0, 10].
C23_OverallIsRecordedMean ==
    epc = "done" =>
        /\ entity_score.overall_score = RecordedMean
        /\ RGe(entity_score.overall_score, Zero)
        /\ RLe(entity_score.overall_score, Ten)

\* C23 amended: the sub-scores and the overall score of a record are rounded
\* to two decimals separately, the overall score from the mean of the
\* sub-scores before rounding; it lies in [0, 10] and within 0.01 of the
\* mean of the four sub-scores of the record.
C23_OverallNearRecordedMean ==
    epc = "done" =>
        /\ 100 % entity_score.overall_score.d = 0
        /\ Within(entity_score.overall_score, RecordedMean, R(1, 100))
        /\ RGe(entity_score.overall_score, Zero)
        /\ RLe(entity_score.overall_score, Ten)

\* A record was returned whose overall score is not the mean of its four
\* sub-scores.
C23_Witness ==
    /\ epc = "done"
    /\ RGt(entity_score.overall_score, Zero)
    /\ entity_score.overall_score # RecordedMean

-----------------------------------------------------------------------------
(* Properties of _generate_recommendations, checked under SpecRecs.        *)

FixedOrder == <<"design", "animation", "features", "ux", "price", "ai_threat">>

OrderOf(r) == CHOOSE k \in DOMAIN FixedOrder : FixedOrder[k] = r

Has(ls, r) == \E i \in DOMAIN ls : ls[i] = r

WeaknessText(ws) == Lower(Join(<<" ">>, ws))

\* C11: the list returned is a subsequence of the fixed order (design,
\* animation, features, ux, price, AI threat) without repetition, and which
\* recommendations it holds is decided by the four sub-scores and the joined,
\* lowered weaknesses text alone.
C11_RecommendationsInFixedOrder ==
    recs # None =>
        /\ \A i \in DOMAIN recs : Has(FixedOrder, recs[i])
        /\ \A i, j \in DOMAIN recs : i < j => OrderOf(recs[i]) < OrderOf(recs[j])
        /\ Has(recs, "design") <=> RLt(rec_args.design, R(5, 1))
        /\ Has(recs, "animation") <=> RLt(rec_args.animation, R(5, 1))
        /\ Has(recs, "features") <=> RLt(rec_args.features, R(5, 1))
        /\ Has(recs, "ux") <=> RLt(rec_args.ux, R(5, 1))
        /\ Has(recs, "price") <=> Contains(WeaknessText(rec_args.weaknesses), PriceWord)
        /\ Has(recs, "ai_threat") <=>
               (RGt(rec_args.features, R(6, 1))
                   /\ ~Contains(WeaknessText(rec_args.weaknesses), AiWord))

\* A call returned the price recommendation between others: design and ux
\* before it, the AI threat after it.
C11_Witness ==
    /\ recs # None
    /\ recs = <<"design", "ux", "price", "ai_threat">>

\* The condition under which recommendation r is due for the arguments
Applies(r) ==
    CASE r = "design" -> RLt(rec_args.design, R(5, 1))
      [] r = "animation" -> RLt(rec_args.animation, R(5, 1))
      [] r = "features" -> RLt(rec_args.features, R(5, 1))
      [] r = "ux" -> RLt(rec_args.ux, R(5, 1))
      [] r = "price" -> Contains(WeaknessText(rec_args.weaknesses), PriceWord)
      [] r = "ai_threat" ->
             /\ ~Contains(WeaknessText(rec_args.weaknesses), AiWord)
             /\ RGt(rec_args.features, R(6, 1))

\* C24: the list holds exactly the recommendations that are due: an
\* improvement recommendation when its sub-score is below 5 (not at 5), the
\* price recommendation when the joined weaknesses hold the price keyword in
\* any case, the AI threat when they do not hold "ai" and the feature score
\* is above 6 (not at 6).
C24_RecommendationConditions ==
    recs # None =>
        /\ recs = SelectSeq(FixedOrder, Applies)
        /\ rec_args.design = R(5, 1) => ~Has(recs, "design")
        /\ rec_args.ux = R(5, 1) => ~Has(recs, "ux")
        /\ rec_args.features = R(5, 1) => ~Has(recs, "features")
        /\ rec_args.features = R(6, 1) => ~Has(recs, "ai_threat")

\* A call with design at 5, features at 6, ux below 5 and the price keyword
\* written with a capital returned the ux and the price recommendation.
C24_Witness ==
    /\ recs = <<"ux", "price">>
    /\ rec_args.design = R(5, 1)
    /\ rec_args.features = R(6, 1)
    /\ rec_args.weaknesses = <<<<"u0426", "u0435", "u043d", "u0430", " ", "u0432", "u044b", "u0441", "u043e", "u043a", "u0430", "u044f">>>>

ImprovementRecommendations == {"design", "animation", "features", "ux"}

\* The threat level score_competitor_text derives from the four sub-scores
ThreatOfArgs ==
    ThreatLevel(Mean4(rec_args.design, rec_args.animation, rec_args.features, rec_args.ux))

\* C28: the list never holds both the recommendation to extend the features
\* and the recommendation that names AI as a threat, and when the threat
\* level of the four sub-scores is "low" the list holds at least one of the
\* four improvement recommendations.
C28_ExclusiveAndLowImproves ==
    recs # None =>
        /\ ~(Has(recs, "features") /\ Has(recs, "ai_threat"))
        /\ ThreatOfArgs = "low" => \E r \in ImprovementRecommendations : Has(recs, r)

\* A call whose sub-scores give the threat level "low" returned the AI threat
\* next to improvement recommendations, the one on features not among them.
C28_Witness ==
    /\ recs # None
    /\ ThreatOfArgs = "low"
    /\ Has(recs, "ai_threat")
    /\ Has(recs, "design")
    /\ ~Has(recs, "features")

-----------------------------------------------------------------------------
(* Properties of compare_competitors, checked under SpecCompare.           *)

\* Where the mapping holds the name
InsertionIndex(name) == CHOOSE i \in DOMAIN scores : scores[i].name = name

\* C12: when compare_competitors returns, the ranking holds every entity of
\* the mapping exactly once with its overall score, in descending order of
\* overall score, entities of equal overall score in insertion order.
C12_RankingSortedStable ==
    cpc = "done" =>
        LET ranking == comparison.ranking
        IN  /\ Len(ranking) = Len(scores)
            /\ \A i \in DOMAIN scores :
                   /\ Cardinality({j \in DOMAIN ranking : ranking[j].name = scores[i].name}) = 1
                   /\ \E j \in DOMAIN ranking :
                          /\ ranking[j].name = scores[i].name
                          /\ ranking[j].score = scores[i].score.overall_score
            /\ \A j, k \in DOMAIN ranking :
                   j < k =>
                       /\ RGe(ranking[j].score, ranking[k].score)
                       /\ ranking[j].score = ranking[k].score =>
                              InsertionIndex(ranking[j].name) < InsertionIndex(ranking[k].name)

\* Three entities were ranked, the first inserted below two of equal overall
\* score, given by different records.
C12_Witness ==
    /\ cpc = "done"
    /\ Len(scores) = 3
    /\ scores[2].score # scores[3].score
    /\ scores[2].score.overall_score = scores[3].score.overall_score
    /\ RLt(scores[1].score.overall_score, scores[2].score.overall_score)
    /\ comparison.ranking[3].name = scores[1].name

\* The records of ScorePool that score_competitor_text returned
IsProduced(score) == DOMAIN score = DOMAIN Score8

LevelCount(level) ==
    Len(SelectSeq(scores, LAMBDA item :
        "overall_threat_level" \in DOMAIN item.score /\ item.score.overall_threat_level = level))

Scenario863 == scores = [i \in 1..3 |-> [name |-> EntityNames[i], score |-> <<Score8, Score6, Score3>>[i]]]

\* C13: each count of the histogram is the number of entities of that threat
\* level; the counts add up to the number of entities when every record comes
\* from score_competitor_text; for the overall scores 8.0, 6.0 and 3.0 the
\* histogram is high 1, medium 1, low 1.
C13_ThreatHistogram ==
    cpc = "done" =>
        LET h == comparison.threat_levels
        IN  /\ h.high = LevelCount("high")
            /\ h.medium = LevelCount("medium")
            /\ h.low = LevelCount("low")
            /\ (\A i \in DOMAIN scores : IsProduced(scores[i].score)) =>
                   h.high + h.medium + h.low = Len(scores)
            /\ Scenario863 => h = [high |-> 1, medium |-> 1, low |-> 1]

\* The mapping with the overall scores 8.0, 6.0 and 3.0 was compared.
C13_Witness ==
    /\ cpc = "done"
    /\ Scenario863
    /\ Names(comparison.ranking) = <<"first", "second", "third">>
    /\ [i \in 1..3 |-> comparison.ranking[i].score] = <<R(8, 1), R(6, 1), R(3, 1)>>

MaturityBand(x) ==
    IF RGe(x, R(15, 2)) THEN "mature" ELSE IF RGe(x, R(5, 1)) THEN "growing" ELSE "emerging"

RAbsDiff(a, b) == IF RGe(a, b) THEN RAdd(a, R(-b.n, b.d)) ELSE RAdd(b, R(-a.n, a.d))

HasTwoDecimals(a) == 100 % a.d = 0

MarketFields ==
    [avg_design_score |-> "design_score", avg_animation_potential |-> "animation_potential",
     avg_feature_richness |-> "feature_richness", avg_ux_rating |-> "ux_rating"]

ReportedMean == 
    Mean4(comparison.market_analysis.avg_design_score,
          comparison.market_analysis.avg_animation_potential,
          comparison.market_analysis.avg_feature_richness,
          comparison.market_analysis.avg_ux_rating)

ExactMean ==
    Mean4(Average(scores, "design_score"), Average(scores, "animation_potential"),
          Average(scores, "feature_richness"), Average(scores, "ux_rating"))

\* C14 as stated: each average of the market analysis is the mean of the
\* category over the entities, and the maturity is the band of the mean of
\* the four averages; the empty mapping gives zeros and "emerging".
C14_MeansAndMaturity ==
    cpc = "done" =>
        /\ \A k \in DOMAIN MarketFields :
               comparison.market_analysis[k] = Average(scores, MarketFields[k])
        /\ comparison.market_analysis.market_maturity = MaturityBand(ReportedMean)

\* C14 amended: each average of the market analysis is the mean of the
\* category over the entities rounded to two decimals; the maturity is the
\* band of the mean of the four means before rounding; the empty mapping
\* gives zeros and "emerging".
C14_RoundedMeansExactMaturity ==
    cpc = "done" =>
        /\ \A k \in DOMAIN MarketFields :
               /\ HasTwoDecimals(comparison.market_analysis[k])
               /\ RLe(RAbsDiff(comparison.market_analysis[k], Average(scores, MarketFields[k])),
                      R(1, 200))
        /\ comparison.market_analysis.market_maturity = MaturityBand(ExactMean)
        /\ scores = <<>> =>
               /\ \A k \in DOMAIN MarketFields : comparison.market_analysis[k] = Zero
               /\ comparison.market_analysis.market_maturity = "emerging"

\* Three records of score_competitor_text were compared whose means are at
\* least 5.0 on average while the averages reported are below 5.0 on average.
C14_Witness ==
    /\ cpc = "done"
    /\ Len(scores) = 3
    /\ \A i \in DOMAIN scores : IsProduced(scores[i].score)
    /\ comparison.market_analysis.market_maturity = "growing"
    /\ RLt(ReportedMean, R(5, 1))

\* C15 as stated: compare_competitors raises for no mapping.
C15_NeverRaises == cpc # "error"

-----------------------------------------------------------------------------
(* Properties of analyze_text_scored, checked under SpecHandler.           *)

\* C16 as stated: when the handler answers with a scorer loaded and at least
\* one entity extracted, every entity of the response carries a non-empty
\* Score record.
C16_EntitiesCarryScores ==
    (hpc = "done" /\ scorer # "None" /\ response # <<>>) =>
        \A i \in DOMAIN response : response[i].score # EmptyDict

-----------------------------------------------------------------------------
(* Properties of repeated calls of the parser, checked under SpecRepeat.   *)

\* C17: a later call of the parser on the same text returns the same list
\* of entities, names and descriptions in the same order, as the call before.
C17_SameResultOnRepeat ==
    (pc = "done" /\ calls > 1) => result = previous

\* A second call on a text with a repeated name has returned its entities.
C17_Witness ==
    /\ pc = "done"
    /\ calls = 2
    /\ text = JoinLines(<<Lines[1], Lines[2]>>)
    /\ Names(result) = <<Figma>>
    /\ Names(previous) = <<Figma>>

-----------------------------------------------------------------------------
(* The parser's result stated strategy by strategy, checked under          *)
(* SpecParse.                                                              *)

\* Strategy k of the four: bullet, bold at line start, inline, numbered
StrategyMatch(k, t, p) ==
    CASE k = 1 -> MatchBullet(t, p)
      [] k = 2 -> MatchBold(t, p)
      [] k = 3 -> MatchInline(t, p)
      [] k = 4 -> MatchNumbered(t, p)

\* The matches of strategy k over t from index s on, left to right
RECURSIVE StrategyMatches(_, _, _)
StrategyMatches(k, t, s) ==
    LET M == {p \in s..Len(t) : StrategyMatch(k, t, p).ok}
    IN  IF M = {} THEN <<>>
        ELSE <<StrategyMatch(k, t, Min(M))>>
                 \o StrategyMatches(k, t, StrategyMatch(k, t, Min(M)).end)

\* Every candidate: strategy order first, match order within a strategy
Candidates(t) ==
    StrategyMatches(1, t, 1) \o StrategyMatches(2, t, 1)
        \o StrategyMatches(3, t, 1) \o StrategyMatches(4, t, 1)

CandidateName(m) == Strip(m.name)

CandidateDescription(m) == Strip(RemoveCitations(Strip(m.desc)))

\* The filters on a candidate other than the one on names seen
PassesFilters(m) ==
    /\ Len(CandidateName(m)) >= 2
    /\ IsUpper(CandidateName(m)[1])
    /\ Len(CandidateDescription(m)) >= 10

\* The first candidate of every name, names compared in lower case
RECURSIVE FirstOfEachName(_, _)
FirstOfEachName(cands, seen) ==
    IF cands = <<>> THEN <<>>
    ELSE IF Lower(CandidateName(cands[1])) \in seen
         THEN FirstOfEachName(Tail(cands), seen)
         ELSE <<cands[1]>>
                  \o FirstOfEachName(Tail(cands), seen \cup {Lower(CandidateName(cands[1]))})

ExpectedEntities(t) ==
    LET kept == FirstOfEachName(SelectSeq(Candidates(t), PassesFilters), {})
    IN  [i \in 1..Min({10, Len(kept)}) |->
            [name |-> CandidateName(kept[i]),
             description |-> Take(RStripDots(CandidateDescription(kept[i])), 200)]]

NamesAndDescriptions(es) ==
    [i \in DOMAIN es |-> [name |-> es[i].name, description |-> es[i].description]]

\* C18: on a non-empty text all four strategies have run when the parser
\* returns, and the result is the list of candidates that pass the filters,
\* in strategy order and then match order, each name (compared in lower
\* case) kept with its first such candidate only, cut to ten.
C18_FirstStrategyWins ==
    (pc = "done" /\ ~IsFalsy(text)) =>
        /\ pattern = 5
        /\ NamesAndDescriptions(result) = ExpectedEntities(text)

\* Canva is named inline on the first line and in a bullet on the second:
\* the description returned is the one of the bullet.
C18_Witness ==
    /\ pc = "done"
    /\ text = JoinLines(<<Lines[7], Lines[12]>>)
    /\ Len(Candidates(text)) = 2
    /\ Names(result) = <<Canva>>
    /\ result[1].description = Take(CandidateDescription(MatchBullet(text, Len(Lines[7]) + 2)), 200)

\* C19: the names seen are the names of the entities accepted so far, and
\* when the parser returns every candidate that passes the filters has its
\* name among the accepted entities, whatever candidates of that name were
\* rejected before it.
C19_SeenOnlyWhenAccepted ==
    /\ pc \in {"loop", "done"} =>
           seen_names = {Lower(competitors[i].name) : i \in DOMAIN competitors}
    /\ (pc = "done" /\ ~IsFalsy(text)) =>
           LET cands == Candidates(text)
           IN  \A k \in DOMAIN cands :
                   PassesFilters(cands[k]) =>
                       \E i \in DOMAIN competitors :
                           Lower(competitors[i].name) = Lower(CandidateName(cands[k]))

\* Sketch was rejected for its short description in a bullet and accepted
\* from the numbered line before it.
C19_Witness ==
    /\ pc = "done"
    /\ text = JoinLines(<<Lines[4], Lines[5]>>)
    /\ ~PassesFilters(Candidates(text)[1])
    /\ CandidateName(Candidates(text)[1]) = Sketch
    /\ Names(result) = <<Sketch>>

-----------------------------------------------------------------------------
(* Properties of concurrent scoring calls, checked under SpecInterleave.   *)

\* C25: no step of _score_text, score_competitor_text,
\* _generate_recommendations or compare_competitors changes the keyword
\* tables or the arguments of a call, and in every interleaving of the steps
\* of the calls each call holds and returns what it holds and returns when
\* it runs alone: the partial sum inside the keyword loop and the record
\* returned.
C25_ReadOnlyAndSerial ==
    /\ [][/\ tables' = tables
          /\ \A r \in DOMAIN req : req'[r].analysis = req[r].analysis
          /\ rec_args' = rec_args
          /\ scores' = scores]_vars
    /\ [](/\ tables = ClassTables
          /\ \A r \in DOMAIN req :
                 /\ req[r].pc = "loop" =>
                        req[r].score =
                            MatchedWeight(req[r].text_lower,
                                          SubSeq(ClassTables[Categories[req[r].category]], 1,
                                                 req[r].keyword - 1))
                 /\ req[r].pc = "done" =>
                        req[r].result = score_competitor_text(req[r].analysis)
          /\ recs # None =>
                 recs = _generate_recommendations(rec_args.design, rec_args.animation,
                                                  rec_args.features, rec_args.ux,
                                                  rec_args.weaknesses)
          /\ cpc = "done" => comparison \in compare_competitors(scores))

\* One request has returned a record with a positive overall score although
\* the other request, on another analysis, was inside its keyword loop with a
\* positive partial score at that time, and compare_competitors has returned.
C25_Witness ==
    /\ req # <<>>
    /\ req[1].pc = "done"
    /\ RGt(req[1].result.overall_score, Zero)
    /\ req[2].pc = "loop"
    /\ req[2].category = 2
    /\ req[2].sub # <<>>
    /\ RGt(req[2].sub[1], Zero)
    /\ RGt(req[2].score, Zero)
    /\ req[1].analysis # req[2].analysis
    /\ cpc = "done"

-----------------------------------------------------------------------------
(* Properties of HistoryService, checked under SpecHistory and             *)
(* SpecHistoryRace.                                                        *)

Stored(id) == \E i \in DOMAIN history_file : history_file[i].id = id

\* C29: when both add_entry calls have returned, the stored history holds
\* the entry of each of them.
C29_BothEntriesStored ==
    (DOMAIN hcall = {1, 2} /\ \A p \in DOMAIN hcall : hcall[p].pc = "done")
        => \A p \in DOMAIN hcall : Stored(hcall[p].item_dict.id)

\* The sum of the token counts of the entries that have one
RECURSIVE SumPresentTokens(_)
SumPresentTokens(history) ==
    IF history = <<>> THEN 0
    ELSE (IF Head(history).tokens_used = None THEN 0 ELSE Head(history).tokens_used[2])
             + SumPresentTokens(Tail(history))

\* C30: get_summary_stats returns, without raising, a record whose
\* total_requests is the number of stored entries and whose
\* total_tokens_used is the sum of the token counts of the entries that have
\* one.
C30_StatsWithoutError ==
    \A p \in DOMAIN hcall :
        hcall[p].op = "get_summary_stats" =>
            /\ "raised" \notin DOMAIN hreturn
            /\ hreturn.total_requests = Len(history_file)
            /\ hreturn.total_tokens_used = SumPresentTokens(load_history)

-----------------------------------------------------------------------------
(* Properties of the routes that look up analyses, checked under SpecHttp. *)

\* Whether none of the ids of the answered request was stored
NoneStored == \A i \in DOMAIN http.ids : http.ids[i] \notin 1..http.stored

\* C27: a request none of whose ids was in the store is answered with
\* status 404.
C27_MissingIsNotFound ==
    (http # <<>> /\ NoneStored) => http.status = 404

====
